---- MODULE Spec2Model ----
(***************************************************************************)
(* avos: layers, slots and experiments (services/layer_service.py) and the *)
(* config synchronizer (services/config_sync.py).                          *)
(*                                                                         *)
(* The store is the three tables layers, layer_slots and experiments as    *)
(* they are after the last session.commit().  Percentages are fractions    *)
(* k / Scale, allocation values are fractions k / Scale, so        *)
(* math.ceil(p * total_slots) is integer arithmetic.                       *)
(***************************************************************************)
EXTENDS Integers, Sequences, FiniteSets, TLC

\* ---------------------------------------------------------------- bounds
BUCKET_SPACE == 3      \* avos.constants.BUCKET_SPACE, scaled down
Scale == 4             \* a percentage or allocation value p stands for p / Scale

\* The layer of the calls on a single layer, and the layers of the store.
LayerIds == {"L1"}
AllLayerIds == {"L1", "L2"}
ExpIds == {"e1", "e2"}
None == "None"
\* An allocations table that is None (the column is NULL), as opposed to {}.
NoAllocations == [none |-> TRUE]
\* A start_date or end_date that is None; the dates are instants of Times.
NoDate == -1
Times == {0, 1, 2}

Statuses == {"draft", "active", "paused", "completed"}

\* ---------------------------------------------------------------- tables
VARIABLES layers, layer_slots, experiments, last, sessions

vars == <<layers, layer_slots, experiments, last, sessions>>

\* A row of table layers (models/layer.py); exists = FALSE stands for no row.
NoLayer ==
  [exists |-> FALSE, layer_salt |-> None, total_slots |-> 0,
   total_traffic_percentage |-> 0]

\* A row of table experiments (models/experiment.py).
NoExperiment ==
  [exists |-> FALSE, layer_id |-> None, name |-> None, variants |-> <<>>,
   traffic_allocation |-> <<>>, segment_allocations |-> NoAllocations,
   splitter_type |-> None, status |-> None,
   start_date |-> NoDate, end_date |-> NoDate,
   traffic_percentage |-> 0, reserved_percentage |-> 0]

\* A row of table layer_slots: experiment_id is the active owner.
EmptySlot == [reserved_experiment_id |-> None, experiment_id |-> None]

\* The committed content of the database.
Store ==
  [layers |-> layers, layer_slots |-> layer_slots, experiments |-> experiments]

EmptyStore ==
  [layers |-> [l \in AllLayerIds |-> NoLayer],
   layer_slots |-> [l \in AllLayerIds |-> <<>>],
   experiments |-> [e \in ExpIds |-> NoExperiment]]

\* What a call hands back: the store it leaves committed, the exception it
\* raised ("" when it returned) and its return value ("True", "False",
\* "None", a layer id or a row count).
Returned(s, ret) == [store |-> s, error |-> "", ret |-> ret]
Raised(s, msg) == [store |-> s, error |-> msg, ret |-> None]

\* ------------------------------------------------------------- helpers
\* math.floor in the place of math.ceil.
math_floor(p, total_slots) == (p * total_slots) \div Scale

\* math.ceil(percentage * total_slots), percentage = p / Scale.
math_ceil(p, total_slots) == (p * total_slots + Scale - 1) \div Scale

\* The float that is not a number. Every comparison with it is false and
\* every sum with it is NaN; any other value v stands for v / Scale.
NaN == 99

float_add(a, b) == IF a = NaN \/ b = NaN THEN NaN ELSE a + b

float_lt(a, b) == a # NaN /\ b # NaN /\ a < b

float_le(a, b) == a # NaN /\ b # NaN /\ a <= b

\* sum(values), from index i on.
RECURSIVE float_sum(_, _)
float_sum(values, i) ==
  IF i > Len(values) THEN 0 ELSE float_add(values[i], float_sum(values, i + 1))

\* abs(total - 1.0) > _ALLOC_TOLERANCE; the tolerance is less than 1 / Scale.
FarFromOne(total) == float_lt(total, Scale) \/ float_lt(Scale, total)

\* abs(total - 1.0) <= _ALLOC_TOLERANCE
CloseToOne(total) == float_le(total, Scale) /\ float_le(Scale, total)

\* [float(allocation_map[variant]) for variant in variants]
AllocationValues(variants, allocation_map) ==
  [i \in DOMAIN variants |-> allocation_map[variants[i]]]

\* The keys of the map are not the variants: missing or extra is not empty.
KeysMismatch(variants, allocation_map) ==
  \/ \E i \in DOMAIN variants : variants[i] \notin DOMAIN allocation_map
  \/ \E v \in DOMAIN allocation_map : \A i \in DOMAIN variants : variants[i] # v

\* The query ordered by slot_index descending.
HighestK(S, k) == {i \in S : Cardinality({j \in S : j > i}) < k}

\* The first k elements of S in increasing order (order_by(slot_index).limit(k)).
FirstK(S, k) == {i \in S : Cardinality({j \in S : j < i}) < k}

RECURSIVE SumOver(_, _)
SumOver(f, S) ==
  IF S = {} THEN 0
  ELSE LET x == CHOOSE y \in S : TRUE IN f[x] + SumOver(f, S \ {x})

\* layer.experiments: the experiments whose layer_id is the layer.
LayerExperiments(s, layer_id) ==
  {e \in ExpIds : s.experiments[e].exists /\ s.experiments[e].layer_id = layer_id}

\* Slot indices of a layer by owner.
ReservedSlots(s, layer_id, owner) ==
  {i \in DOMAIN s.layer_slots[layer_id] :
     s.layer_slots[layer_id][i].reserved_experiment_id = owner}

ActiveSlots(s, layer_id, owner) ==
  {i \in DOMAIN s.layer_slots[layer_id] :
     s.layer_slots[layer_id][i].experiment_id = owner}

\* ------------------------------------------------------- LayerService
\* create_layer without the comparison of total_slots with BUCKET_SPACE.
CreateAnySize(s, layer_id, layer_salt, total_slots, total_traffic_percentage) ==
  IF s.layers[layer_id].exists
    THEN Raised(s, "IntegrityError")
  ELSE Returned(
    [s EXCEPT
       !.layers[layer_id] =
          [exists |-> TRUE, layer_salt |-> layer_salt, total_slots |-> total_slots,
           total_traffic_percentage |-> total_traffic_percentage],
       !.layer_slots[layer_id] = [i \in 0..(total_slots - 1) |-> EmptySlot]],
    layer_id)

create_layer(s, layer_id, layer_salt, total_slots, total_traffic_percentage) ==
  IF total_slots # BUCKET_SPACE
    THEN Raised(s, "total_slots must be BUCKET_SPACE")
  ELSE IF s.layers[layer_id].exists
    THEN Raised(s, "IntegrityError")   \* primary key layers.layer_id, at commit
  ELSE Returned(
    [s EXCEPT
       !.layers[layer_id] =
          [exists |-> TRUE, layer_salt |-> layer_salt, total_slots |-> total_slots,
           total_traffic_percentage |-> total_traffic_percentage],
       !.layer_slots[layer_id] = [i \in 0..(total_slots - 1) |-> EmptySlot]],
    layer_id)

get_layer(s, layer_id) == s.layers[layer_id]

get_experiment(s, experiment_id) == s.experiments[experiment_id]

\* The row session.add(experiment) inserts.
ExperimentRow(experiment) ==
  [exists |-> TRUE, layer_id |-> experiment.layer_id, name |-> experiment.name,
   variants |-> experiment.variants,
   traffic_allocation |-> experiment.traffic_allocation,
   segment_allocations |-> experiment.segment_allocations,
   splitter_type |-> experiment.splitter_type, status |-> experiment.status,
   start_date |-> experiment.start_date, end_date |-> experiment.end_date,
   traffic_percentage |-> experiment.traffic_percentage,
   reserved_percentage |-> experiment.reserved_percentage]

\* add_experiment without the comparison of the number of free slots found
\* with the number needed.
AddWithoutFreeSlotCheck(s, layer_id, experiment) ==
  LET layer == s.layers[layer_id]
      reserved ==
        SumOver([e \in ExpIds |-> s.experiments[e].reserved_percentage],
                {e \in LayerExperiments(s, layer_id) :
                   s.experiments[e].status # "completed"})
      free_slots ==
        FirstK(ReservedSlots(s, layer_id, None),
               math_ceil(experiment.reserved_percentage, layer.total_slots))
      active_slots ==
        FirstK(free_slots, math_ceil(experiment.traffic_percentage, layer.total_slots))
  IN
  IF experiment.layer_id # layer_id
    THEN Raised(s, "Experiment.layer_id must match the target layer")
  ELSE IF experiment.reserved_percentage < experiment.traffic_percentage
    THEN Raised(s, "Experiment.reserved_percentage must be >= traffic_percentage")
  ELSE IF reserved + experiment.reserved_percentage > layer.total_traffic_percentage
    THEN Returned(s, "False")
  ELSE IF s.experiments[experiment.experiment_id].exists
    THEN Raised(s, "IntegrityError")
  ELSE Returned(
    [s EXCEPT
       !.layer_slots[layer_id] =
          [i \in DOMAIN @ |->
             IF i \in free_slots
               THEN [reserved_experiment_id |-> experiment.experiment_id,
                     experiment_id |->
                       IF i \in active_slots THEN experiment.experiment_id
                       ELSE @[i].experiment_id]
               ELSE @[i]],
       !.experiments[experiment.experiment_id] = ExperimentRow(experiment)],
    "True")

add_experiment(s, layer_id, experiment) ==
  LET layer == s.layers[layer_id]
      current_reserved ==
        SumOver([e \in ExpIds |-> s.experiments[e].reserved_percentage],
                {e \in LayerExperiments(s, layer_id) :
                   s.experiments[e].status # "completed"})
      reserved_slots_needed ==
        math_ceil(experiment.reserved_percentage, layer.total_slots)
      free_slots == FirstK(ReservedSlots(s, layer_id, None), reserved_slots_needed)
      active_slots_needed ==
        math_ceil(experiment.traffic_percentage, layer.total_slots)
      active_slots == FirstK(free_slots, active_slots_needed)
  IN
  IF experiment.layer_id # layer_id
    THEN Raised(s, "Experiment.layer_id must match the target layer")
  ELSE IF experiment.reserved_percentage < experiment.traffic_percentage
    THEN Raised(s, "Experiment.reserved_percentage must be >= traffic_percentage")
  ELSE IF current_reserved + experiment.reserved_percentage
            > layer.total_traffic_percentage
    THEN Returned(s, "False")            \* "Reservation exceeds capacity"
  ELSE IF Cardinality(free_slots) < reserved_slots_needed
    THEN Returned(s, "False")            \* "Not enough free slots"
  ELSE IF active_slots_needed > reserved_slots_needed
    THEN Raised(s, "Experiment.traffic_percentage cannot exceed reserved_percentage")
  ELSE IF s.experiments[experiment.experiment_id].exists
    THEN Raised(s, "IntegrityError")   \* primary key experiments.experiment_id
  ELSE Returned(
    [s EXCEPT
       !.layer_slots[layer_id] =
          [i \in DOMAIN @ |->
             IF i \in free_slots
               THEN [reserved_experiment_id |-> experiment.experiment_id,
                     experiment_id |->
                       IF i \in active_slots THEN experiment.experiment_id
                       ELSE @[i].experiment_id]
               ELSE @[i]],
       !.experiments[experiment.experiment_id] = ExperimentRow(experiment)],
    "True")

\* remove_experiment selecting the slots by experiment_id, the active owner.
RemoveActiveSlotsOnly(s, layer_id, experiment_id) ==
  LET experiment == s.experiments[experiment_id]
      active_slots == ActiveSlots(s, layer_id, experiment_id)
  IN
  IF ~(experiment.exists /\ experiment.layer_id = layer_id)
    THEN Returned(s, "False")
  ELSE Returned(
    [s EXCEPT
       !.layer_slots[layer_id] =
          [i \in DOMAIN @ |-> IF i \in active_slots THEN EmptySlot ELSE @[i]],
       !.experiments[experiment_id].status = "completed"],
    "True")

\* session.delete(layer): the cascade deletes the layer's slots and experiments.
delete_layer(s, layer_id) ==
  IF ~s.layers[layer_id].exists THEN Returned(s, "False")
  ELSE Returned(
    [layers |-> [s.layers EXCEPT ![layer_id] = NoLayer],
     layer_slots |-> [s.layer_slots EXCEPT ![layer_id] = <<>>],
     experiments |->
       [e \in ExpIds |->
          IF s.experiments[e].exists /\ s.experiments[e].layer_id = layer_id
            THEN NoExperiment ELSE s.experiments[e]]],
    "True")

\* remove_experiment looking the experiment up by its id alone.
RemoveFromAnyLayer(s, layer_id, experiment_id) ==
  LET experiment == s.experiments[experiment_id]
      reserved_slots == ReservedSlots(s, layer_id, experiment_id)
  IN
  IF ~experiment.exists
    THEN Returned(s, "False")
  ELSE Returned(
    [s EXCEPT
       !.layer_slots[layer_id] =
          [i \in DOMAIN @ |-> IF i \in reserved_slots THEN EmptySlot ELSE @[i]],
       !.experiments[experiment_id].status = "completed"],
    "True")

remove_experiment(s, layer_id, experiment_id) ==
  LET experiment == s.experiments[experiment_id]
      reserved_slots == ReservedSlots(s, layer_id, experiment_id)
  IN
  IF ~(experiment.exists /\ experiment.layer_id = layer_id)
    THEN Returned(s, "False")
  ELSE Returned(
    [s EXCEPT
       !.layer_slots[layer_id] =
          [i \in DOMAIN @ |-> IF i \in reserved_slots THEN EmptySlot ELSE @[i]],
       !.experiments[experiment_id].status = "completed"],
    "True")

bulk_free_experiment_slots(s, layer_id, experiment_id) ==
  LET rows == ReservedSlots(s, layer_id, experiment_id) IN
  Returned(
    [s EXCEPT
       !.layer_slots[layer_id] =
          [i \in DOMAIN @ |-> IF i \in rows THEN EmptySlot ELSE @[i]]],
    ToString(Cardinality(rows)))   \* result.rowcount

\* ---------------------------------------------------- Experiment accessors
\* The JSON columns hold the decoded value; a dict is a function on its keys,
\* and None and {} of an optional allocation table are both the empty function.
get_variant_list(experiment) == experiment.variants

get_traffic_dict(experiment) == experiment.traffic_allocation

get_segment_allocations(experiment) ==
  IF experiment.segment_allocations = NoAllocations THEN <<>>
  ELSE experiment.segment_allocations

\* ------------------------------------------------------------ config_sync
\* value or {}
_normalize_allocations_optional(value) ==
  IF value = NoAllocations THEN <<>> ELSE value

\* allocation.get(variant, 0.0)
dict_get(allocation, variant) ==
  IF variant \in DOMAIN allocation THEN allocation[variant] ELSE 0

_is_winner_allocation(variants, allocation) ==
  LET value(i) == dict_get(allocation, variants[i])
      ones == {i \in DOMAIN variants : value(i) = Scale}
  IN /\ DOMAIN allocation # {}
     /\ \A i \in DOMAIN variants : value(i) \in {Scale, 0}
     /\ Cardinality(ones) = 1

_build_experiment(experiment_config) ==
  [experiment_id |-> experiment_config.experiment_id,
   layer_id |-> experiment_config.layer_id,
   name |-> experiment_config.name,
   variants |-> experiment_config.variants,
   traffic_allocation |-> experiment_config.traffic_allocation,
   segment_allocations |-> experiment_config.segment_allocations,
   splitter_type |-> experiment_config.splitter_type,
   status |-> experiment_config.status,
   start_date |-> experiment_config.start_date,
   end_date |-> experiment_config.end_date,
   traffic_percentage |-> experiment_config.traffic_percentage,
   reserved_percentage |-> experiment_config.reserved_percentage]

\* The first check that fails, as the message it raises with; "" when all pass.
_validate_experiment_immutables(existing, experiment_config) ==
  IF existing.layer_id # experiment_config.layer_id
    THEN "layer_id cannot be changed"
  ELSE IF existing.splitter_type # experiment_config.splitter_type
    THEN "splitter_type cannot be changed"
  ELSE IF get_variant_list(existing) # experiment_config.variants
    THEN "variants cannot be changed"
  ELSE IF get_segment_allocations(existing)
            # _normalize_allocations_optional(experiment_config.segment_allocations)
    THEN "segment_allocations cannot be changed"
  ELSE IF get_traffic_dict(existing) # experiment_config.traffic_allocation
    THEN IF _is_winner_allocation(experiment_config.variants,
                                  experiment_config.traffic_allocation)
           THEN "winner allocation is allowed only when status is completed"
           ELSE "traffic_allocation cannot be changed"
  ELSE ""

_validate_traffic_percentage_change(existing, experiment_config) ==
  IF experiment_config.traffic_percentage < existing.traffic_percentage
    THEN "traffic_percentage cannot decrease"
  ELSE IF experiment_config.traffic_percentage > experiment_config.reserved_percentage
    THEN "traffic_percentage cannot exceed reserved_percentage"
  ELSE ""

_validate_reserved_percentage_change(s, layer_id, experiment_id, experiment_config) ==
  LET existing == s.experiments[experiment_id]
      total_other ==
        SumOver([e \in ExpIds |-> s.experiments[e].reserved_percentage],
                {e \in LayerExperiments(s, layer_id) :
                   e # experiment_id /\ s.experiments[e].status # "completed"})
  IN
  IF experiment_config.reserved_percentage < existing.reserved_percentage
    THEN "reserved_percentage cannot decrease"
  ELSE IF experiment_config.reserved_percentage < experiment_config.traffic_percentage
    THEN "reserved_percentage must be >= traffic_percentage"
  ELSE IF total_other + experiment_config.reserved_percentage
            > s.layers[layer_id].total_traffic_percentage
    THEN "reserved_percentage exceeds layer capacity"
  ELSE ""

\* _apply_reservation_slots rewritten to choose the whole reservation anew
\* among the free slots and the experiment's own, lowest index first.
ReservationChosenAnew(s, layer_id, experiment_id, experiment_config) ==
  LET desired_slots ==
        math_ceil(experiment_config.reserved_percentage, s.layers[layer_id].total_slots)
      own == ReservedSlots(s, layer_id, experiment_id)
      chosen == FirstK(ReservedSlots(s, layer_id, None) \cup own, desired_slots)
  IN
  IF desired_slots < Cardinality(own)
    THEN Raised(s, "reserved_percentage cannot decrease")
  ELSE IF Cardinality(chosen) < desired_slots
    THEN Raised(s, "insufficient free slots for reservation")
  ELSE Returned(
    [s EXCEPT
       !.layer_slots[layer_id] =
          [i \in DOMAIN @ |->
             IF i \in chosen
               THEN [@[i] EXCEPT !.reserved_experiment_id = experiment_id]
             ELSE IF i \in own THEN EmptySlot
             ELSE @[i]]],
    "None")

\* Reserves the additional slots in the session (no commit).
_apply_reservation_slots(s, layer_id, experiment_id, experiment_config) ==
  LET desired_slots ==
        math_ceil(experiment_config.reserved_percentage, s.layers[layer_id].total_slots)
      current_slots == Cardinality(ReservedSlots(s, layer_id, experiment_id))
      additional_slots == desired_slots - current_slots
      free_slots == FirstK(ReservedSlots(s, layer_id, None), additional_slots)
  IN
  IF desired_slots < current_slots
    THEN Raised(s, "reserved_percentage cannot decrease")
  ELSE IF additional_slots <= 0
    THEN Returned(s, "None")
  ELSE IF Cardinality(free_slots) < additional_slots
    THEN Raised(s, "insufficient free slots for reservation")
  ELSE Returned(
    [s EXCEPT
       !.layer_slots[layer_id] =
          [i \in DOMAIN @ |->
             IF i \in free_slots
               THEN [@[i] EXCEPT !.reserved_experiment_id = experiment_id]
               ELSE @[i]]],
    "None")

\* _apply_ramp_up_slots without the filter on reserved_experiment_id.
RampUpAnyInactiveSlot(s, layer_id, experiment_id, experiment_config) ==
  LET desired_slots ==
        math_ceil(experiment_config.traffic_percentage, s.layers[layer_id].total_slots)
      current_slots == Cardinality(ActiveSlots(s, layer_id, experiment_id))
      additional_slots == desired_slots - current_slots
      chosen == FirstK(ActiveSlots(s, layer_id, None), additional_slots)
  IN
  IF desired_slots < current_slots
    THEN Raised(s, "traffic_percentage cannot decrease")
  ELSE IF additional_slots <= 0
    THEN Returned(s, "None")
  ELSE IF Cardinality(chosen) < additional_slots
    THEN Raised(s, "insufficient reserved slots for ramp up")
  ELSE Returned(
    [s EXCEPT
       !.layer_slots[layer_id] =
          [i \in DOMAIN @ |->
             IF i \in chosen THEN [@[i] EXCEPT !.experiment_id = experiment_id]
             ELSE @[i]]],
    "None")

\* Activates the additional slots in the session (no commit).
_apply_ramp_up_slots(s, layer_id, experiment_id, experiment_config) ==
  LET desired_slots ==
        math_ceil(experiment_config.traffic_percentage, s.layers[layer_id].total_slots)
      current_slots == Cardinality(ActiveSlots(s, layer_id, experiment_id))
      additional_slots == desired_slots - current_slots
      free_reserved_slots ==
        FirstK(ReservedSlots(s, layer_id, experiment_id)
                 \cap ActiveSlots(s, layer_id, None),
               additional_slots)
  IN
  IF desired_slots < current_slots
    THEN Raised(s, "traffic_percentage cannot decrease")
  ELSE IF additional_slots <= 0
    THEN Returned(s, "None")
  ELSE IF Cardinality(free_reserved_slots) < additional_slots
    THEN Raised(s, "insufficient reserved slots for ramp up")
  ELSE Returned(
    [s EXCEPT
       !.layer_slots[layer_id] =
          [i \in DOMAIN @ |->
             IF i \in free_reserved_slots
               THEN [@[i] EXCEPT !.experiment_id = experiment_id]
               ELSE @[i]]],
    "None")

_update_experiment(existing, experiment_config) ==
  [existing EXCEPT
     !.name = experiment_config.name,
     !.traffic_allocation = experiment_config.traffic_allocation,
     !.status = experiment_config.status,
     !.start_date = experiment_config.start_date,
     !.end_date = experiment_config.end_date,
     !.segment_allocations = experiment_config.segment_allocations,
     !.traffic_percentage = experiment_config.traffic_percentage,
     !.reserved_percentage = experiment_config.reserved_percentage]

\* The completed branch without the check of the winner allocation.
CompletionWithAnyAllocation(existing, experiment_config) ==
  IF existing.layer_id # experiment_config.layer_id
    THEN "layer_id cannot be changed"
  ELSE IF existing.splitter_type # experiment_config.splitter_type
    THEN "splitter_type cannot be changed"
  ELSE IF get_variant_list(existing) # experiment_config.variants
    THEN "variants cannot be changed"
  ELSE IF get_segment_allocations(existing)
            # _normalize_allocations_optional(experiment_config.segment_allocations)
    THEN "segment_allocations cannot be changed"
  ELSE ""

\* The checks of the completed branch, as the message raised; "" when all pass.
ValidateCompletion(existing, experiment_config) ==
  IF existing.layer_id # experiment_config.layer_id
    THEN "layer_id cannot be changed"
  ELSE IF existing.splitter_type # experiment_config.splitter_type
    THEN "splitter_type cannot be changed"
  ELSE IF get_variant_list(existing) # experiment_config.variants
    THEN "variants cannot be changed"
  ELSE IF get_segment_allocations(existing)
            # _normalize_allocations_optional(experiment_config.segment_allocations)
    THEN "segment_allocations cannot be changed"
  ELSE IF /\ get_traffic_dict(existing) # experiment_config.traffic_allocation
          /\ ~_is_winner_allocation(experiment_config.variants,
                                    experiment_config.traffic_allocation)
    THEN "traffic_allocation can only change to a winner allocation"
  ELSE ""

\* The branch for a live experiment without the checks of the percentages
\* and without the slot steps: the record is written as the config gives it.
ApplyLiveUnchecked(s, layer_id, experiment_config) ==
  LET experiment_id == experiment_config.experiment_id
      existing == s.experiments[experiment_id]
      immutables == _validate_experiment_immutables(existing, experiment_config)
  IN
  IF existing.status = "completed"
    THEN Raised(s, "is completed and cannot be modified")
  ELSE IF immutables # "" THEN Raised(s, immutables)
  ELSE Returned(
    [s EXCEPT
       !.experiments[experiment_id] = _update_experiment(existing, experiment_config)],
    "None")

\* The branch for an existing experiment without the test of its status.
ApplyLiveEvenIfCompleted(s, layer_id, experiment_config) ==
  LET experiment_id == experiment_config.experiment_id
      existing == s.experiments[experiment_id]
      immutables == _validate_experiment_immutables(existing, experiment_config)
      traffic == _validate_traffic_percentage_change(existing, experiment_config)
      reserved ==
        _validate_reserved_percentage_change(s, layer_id, experiment_id, experiment_config)
      r1 == _apply_reservation_slots(s, layer_id, experiment_id, experiment_config)
      r2 == _apply_ramp_up_slots(r1.store, layer_id, experiment_id, experiment_config)
  IN
  IF immutables # "" THEN Raised(s, immutables)
  ELSE IF traffic # "" THEN Raised(s, traffic)
  ELSE IF reserved # "" THEN Raised(s, reserved)
  ELSE IF r1.error # "" THEN Raised(s, r1.error)
  ELSE IF r2.error # "" THEN Raised(s, r2.error)
  ELSE Returned(
    [r2.store EXCEPT
       !.experiments[experiment_id] = _update_experiment(existing, experiment_config)],
    "None")

\* The branch for an existing experiment and a target that is not completed.
ApplyLiveExperiment(s, layer_id, experiment_config) ==
  LET experiment_id == experiment_config.experiment_id
      existing == s.experiments[experiment_id]
      immutables == _validate_experiment_immutables(existing, experiment_config)
      traffic == _validate_traffic_percentage_change(existing, experiment_config)
      reserved ==
        _validate_reserved_percentage_change(s, layer_id, experiment_id, experiment_config)
      r1 == _apply_reservation_slots(s, layer_id, experiment_id, experiment_config)
      r2 == _apply_ramp_up_slots(r1.store, layer_id, experiment_id, experiment_config)
  IN
  IF existing.status = "completed"
    THEN Raised(s, "is completed and cannot be modified")
  ELSE IF immutables # "" THEN Raised(s, immutables)
  ELSE IF traffic # "" THEN Raised(s, traffic)
  ELSE IF reserved # "" THEN Raised(s, reserved)
  ELSE IF r1.error # "" THEN Raised(s, r1.error)
  ELSE IF r2.error # "" THEN Raised(s, r2.error)   \* r1's writes are not committed
  ELSE Returned(
    [r2.store EXCEPT
       !.experiments[experiment_id] = _update_experiment(existing, experiment_config)],
    "None")

\* _apply_experiment_config without the test of what add_experiment returned.
ApplyIgnoringRefusal(s, layer_id, experiment_config) ==
  LET experiment_id == experiment_config.experiment_id
      existing == get_experiment(s, experiment_id)
      completion == ValidateCompletion(existing, experiment_config)
      added == add_experiment(s, layer_id, _build_experiment(experiment_config))
  IN
  IF experiment_config.status = "completed"
    THEN IF ~existing.exists THEN Returned(s, "None")
         ELSE IF completion # "" THEN Raised(s, completion)
         ELSE Returned(
           remove_experiment(
             [s EXCEPT !.experiments[experiment_id].traffic_allocation =
                         experiment_config.traffic_allocation],
             layer_id, experiment_id).store,
           "None")
  ELSE IF ~existing.exists
    THEN IF added.error # "" THEN added
         ELSE Returned(added.store, "None")
  ELSE ApplyLiveExperiment(s, layer_id, experiment_config)

\* _apply_experiment_config adding an experiment that does not exist whatever
\* the target status is.
ApplyAddingUnknown(s, layer_id, experiment_config) ==
  LET experiment_id == experiment_config.experiment_id
      existing == get_experiment(s, experiment_id)
      completion == ValidateCompletion(existing, experiment_config)
      added == add_experiment(s, layer_id, _build_experiment(experiment_config))
  IN
  IF ~existing.exists
    THEN IF added.error # "" THEN added
         ELSE IF added.ret = "False" THEN Raised(s, "failed to add experiment")
         ELSE Returned(added.store, "None")
  ELSE IF experiment_config.status = "completed"
    THEN IF completion # "" THEN Raised(s, completion)
         ELSE Returned(
           remove_experiment(
             [s EXCEPT !.experiments[experiment_id].traffic_allocation =
                         experiment_config.traffic_allocation],
             layer_id, experiment_id).store,
           "None")
  ELSE ApplyLiveExperiment(s, layer_id, experiment_config)

_apply_experiment_config(s, layer_id, experiment_config) ==
  LET experiment_id == experiment_config.experiment_id
      existing == get_experiment(s, experiment_id)
      completion == ValidateCompletion(existing, experiment_config)
      added == add_experiment(s, layer_id, _build_experiment(experiment_config))
  IN
  IF experiment_config.status = "completed"
    THEN IF ~existing.exists THEN Returned(s, "None")
         ELSE IF completion # "" THEN Raised(s, completion)
         ELSE Returned(
           remove_experiment(
             [s EXCEPT !.experiments[experiment_id].traffic_allocation =
                         experiment_config.traffic_allocation],
             layer_id, experiment_id).store,
           "None")
  ELSE IF ~existing.exists
    THEN IF added.error # "" THEN added
         ELSE IF added.ret = "False" THEN Raised(s, "failed to add experiment")
         ELSE Returned(added.store, "None")
  ELSE ApplyLiveExperiment(s, layer_id, experiment_config)

\* The loop over layer_config.experiments from index i on; every experiment
\* that is applied is committed before the next one is looked at.
RECURSIVE ApplyExperiments(_, _, _)
ApplyExperiments(s, layer_config, i) ==
  IF i > Len(layer_config.experiments) THEN Returned(s, "None")
  ELSE
    LET experiment_config == layer_config.experiments[i]
        r == _apply_experiment_config(s, layer_config.layer_id, experiment_config)
    IN
    IF experiment_config.layer_id # layer_config.layer_id
      THEN Raised(s, "layer_id does not match layer")
    ELSE IF r.error # "" THEN r
    ELSE ApplyExperiments(r.store, layer_config, i + 1)

\* _apply_layer_config taking the layer_salt and total_slots of the config for
\* an existing layer instead of comparing them.
SyncAdoptingSalt(s, layer_config) ==
  LET layer == get_layer(s, layer_config.layer_id)
      created ==
        create_layer(s, layer_config.layer_id, layer_config.layer_salt,
                     layer_config.total_slots, layer_config.total_traffic_percentage)
      updated ==
        [s EXCEPT !.layers[layer_config.layer_id].total_traffic_percentage =
                    layer_config.total_traffic_percentage,
                  !.layers[layer_config.layer_id].layer_salt = layer_config.layer_salt,
                  !.layers[layer_config.layer_id].total_slots = layer_config.total_slots]
  IN
  IF layer_config.slots # <<>>
    THEN Raised(s, "slots config is not supported in sync")
  ELSE IF ~layer.exists
    THEN IF created.error # "" THEN created
         ELSE ApplyExperiments(created.store, layer_config, 1)
  ELSE ApplyExperiments(updated, layer_config, 1)

_apply_layer_config(s, layer_config) ==
  LET layer == get_layer(s, layer_config.layer_id)
      created ==
        create_layer(s, layer_config.layer_id, layer_config.layer_salt,
                     layer_config.total_slots, layer_config.total_traffic_percentage)
      updated ==
        [s EXCEPT !.layers[layer_config.layer_id].total_traffic_percentage =
                    layer_config.total_traffic_percentage]
  IN
  IF layer_config.slots # <<>>
    THEN Raised(s, "slots config is not supported in sync")
  ELSE IF ~layer.exists
    THEN IF created.error # "" THEN created
         ELSE ApplyExperiments(created.store, layer_config, 1)
  ELSE IF layer.layer_salt # layer_config.layer_salt
    THEN Raised(s, "layer_salt mismatch")
  ELSE IF layer.total_slots # layer_config.total_slots
    THEN Raised(s, "total_slots mismatch")
  ELSE ApplyExperiments(updated, layer_config, 1)

RECURSIVE ApplyLayers(_, _, _)
ApplyLayers(s, layer_configs, i) ==
  IF i > Len(layer_configs) THEN Returned(s, "None")
  ELSE
    LET r == _apply_layer_config(s, layer_configs[i]) IN
    IF r.error # "" THEN r ELSE ApplyLayers(r.store, layer_configs, i + 1)

apply_layer_configs(s, layer_configs) == ApplyLayers(s, layer_configs, 1)

\* get_layer_info(session, layer): the counts it reports; it writes nothing.
get_layer_info(s, layer_id) ==
  LET total_slots == s.layers[layer_id].total_slots
      free_slots == Cardinality(ReservedSlots(s, layer_id, None))
  IN
  [layer_id |-> layer_id,
   total_slots |-> total_slots,
   free_slots |-> free_slots,
   used_slots |-> total_slots - free_slots,
   active_experiments |->
     Cardinality({e \in LayerExperiments(s, layer_id) :
                    s.experiments[e].status = "active"}),
   experiment_slot_counts |->
     [e \in LayerExperiments(s, layer_id) |->
        Cardinality(ActiveSlots(s, layer_id, e))]]

\* ------------------------------------------------------ AssignmentService
\* int(hashlib.md5(f"{unit_id}{key}").hexdigest(), 16): a fixed function of the
\* unit and of the salt or experiment id that is hashed with it.
KeyCode(key) ==
  CASE key = "salt1" -> 1 [] key = "salt2" -> 2 [] key = "e1" -> 3
    [] key = "e2" -> 5 [] key = "US" -> 4 [] OTHER -> 0

md5_int(unit_id, key) == unit_id * 7 + 2 * KeyCode(key) + unit_id * KeyCode(key)

_calculate_user_slot(layer_salt, total_slots, unit_id) ==
  md5_int(unit_id, layer_salt) % total_slots

\* Experiment.is_active(now); every datetime is an instant in UTC.
is_active(experiment, now) ==
  IF experiment.status # "active" THEN FALSE
  ELSE IF experiment.start_date # NoDate /\ now < experiment.start_date THEN FALSE
  ELSE IF experiment.end_date # NoDate /\ now > experiment.end_date THEN FALSE
  ELSE TRUE

\* normalize_allocations: the allocation values in the order of the variants.
normalize_allocations(variants, allocation_map) ==
  [i \in DOMAIN variants |-> allocation_map[variants[i]]]

\* normalize_allocations for a dict: the message it raises with, "" when it
\* returns the values.
NormalizeRaises(variants, allocation_map) ==
  LET values == AllocationValues(variants, allocation_map)
      total == float_sum(values, 1)
  IN
  IF variants = <<>> THEN "Variants required for allocation normalization"
  ELSE IF KeysMismatch(variants, allocation_map) THEN "keys must match variants"
  ELSE IF \E i \in DOMAIN values : float_lt(values[i], 0) THEN "must be non-negative"
  ELSE IF float_le(total, 0) THEN "must sum to > 0"
  ELSE IF CloseToOne(total) THEN ""
  ELSE "must sum to 1.0"

\* The loop over the buckets taking a point on a boundary for the bucket
\* below the boundary.
RECURSIVE BucketUpToBoundary(_, _, _, _, _)
BucketUpToBoundary(variants, allocations, val, i, cumulative) ==
  IF i > Len(variants) THEN variants[Len(variants)]
  ELSE IF val <= cumulative + allocations[i] THEN variants[i]
  ELSE BucketUpToBoundary(variants, allocations, val, i + 1, cumulative + allocations[i])

\* The loop over the buckets: val = digest / 2**128 is point / Scale.
RECURSIVE FirstBucket(_, _, _, _, _)
FirstBucket(variants, allocations, val, i, cumulative) ==
  IF i > Len(variants) THEN variants[Len(variants)]
  ELSE IF val < cumulative + allocations[i] THEN variants[i]
  ELSE FirstBucket(variants, allocations, val, i + 1, cumulative + allocations[i])

HashBasedSplitter(exp_id, unit_id, variants, allocations) ==
  FirstBucket(variants, allocations, md5_int(unit_id, exp_id) % Scale, 1, 0)

\* RandomSplitter.assign_variant: random.choices draws any variant of weight > 0.
RandomSplitter(variants, allocations) ==
  {variants[i] : i \in {j \in DOMAIN variants : allocations[j] > 0}}

\* What stands for an exception among the results of a call.
ValueError == "raised"

\* SegmentedSplitter.assign_variant: the hash of unit_id, exp_id and segment.
SegmentedSplitter(exp_id, segment_allocations, unit_id, variants, segment) ==
  IF segment = None \/ segment \notin DOMAIN segment_allocations THEN ValueError
  ELSE FirstBucket(variants,
                   normalize_allocations(variants, segment_allocations[segment]),
                   (md5_int(unit_id, exp_id) + 3 * KeyCode(segment) + unit_id) % Scale,
                   1, 0)

Assignment(slot_index, experiment_id, variant, status) ==
  [slot_index |-> slot_index, experiment_id |-> experiment_id,
   variant |-> variant, status |-> status]

\* The kinds of object handed over as assignment_logger: none, one whose
\* log_assignments returns, one whose log_assignments raises, and one
\* without a log_assignments attribute.
Loggers == {None, "logs", "raises", "unusable"}

\* _log_assignments: "" when it returns, the exception otherwise.
_log_assignments(assignment_logger, assignments) ==
  IF assignment_logger = None \/ assignments = {} THEN ""
  ELSE IF assignment_logger # "unusable"
    THEN IF assignment_logger = "raises" THEN "log_assignments raised" ELSE ""
  ELSE "assignment_logger must implement log_assignments(assignments)"

\* The last two statements of each branch of assign_for_layer: log, then
\* return the assignment.
LogAndReturn(assignment, assignment_logger) ==
  IF assignment.status # ValueError
       /\ _log_assignments(assignment_logger, {assignment}) # ""
    THEN Assignment(assignment.slot_index, None, None, ValueError)
    ELSE assignment

\* Every splitter drawing as the random one does.
AssignVariantAtRandom(experiment, exp_id, unit_id, variants, allocations, segment) ==
  RandomSplitter(variants, allocations)

\* _select_splitter and splitter.assign_variant(unit_id, variants,
\* allocations, **splitter_kwargs): the variants the call can return. The
\* keyword segment is passed when it is given, and only the segmented
\* splitter takes it; the geo and the stratified splitter get no key.
assign_variant(experiment, exp_id, unit_id, variants, allocations, segment) ==
  IF segment # None /\ experiment.splitter_type # "segment" THEN {ValueError}
  ELSE IF experiment.splitter_type = "hash"
    THEN {HashBasedSplitter(exp_id, unit_id, variants, allocations)}
  ELSE IF experiment.splitter_type = "random"
    THEN RandomSplitter(variants, allocations)
  ELSE IF experiment.splitter_type = "segment"
    THEN {SegmentedSplitter(exp_id, get_segment_allocations(experiment),
                            unit_id, variants, segment)}
  ELSE {ValueError}

\* assign_for_layer(session, layer, unit_id, segment, assignment_logger) at
\* time now = utc_now(): the set of results the call can return; a result
\* with status ValueError stands for an exception.
assign_for_layer(s, layer_id, unit_id, segment, assignment_logger, now) ==
  LET layer == s.layers[layer_id]
      slot_index == _calculate_user_slot(layer.layer_salt, layer.total_slots, unit_id)
      slot == s.layer_slots[layer_id][slot_index]
      experiment == s.experiments[slot.experiment_id]
      variants == get_variant_list(experiment)
      allocations == normalize_allocations(variants, get_traffic_dict(experiment))
      drawn == assign_variant(experiment, slot.experiment_id, unit_id, variants,
                              allocations, segment)
  IN
  IF slot.experiment_id = None
    THEN {LogAndReturn(Assignment(slot_index, None, None, "not_assigned"),
                       assignment_logger)}
  ELSE IF ~experiment.exists \/ ~is_active(experiment, now)
    THEN {LogAndReturn(Assignment(slot_index, slot.experiment_id, None,
                                  "experiment_inactive"),
                       assignment_logger)}
  ELSE {LogAndReturn(IF variant = ValueError
                       THEN Assignment(slot_index, None, None, ValueError)
                       ELSE Assignment(slot_index, slot.experiment_id, variant,
                                       "assigned"),
                     assignment_logger) : variant \in drawn}

\* The loop over unit_ids from index i on, each call at its own time: the
\* lists of assignments it can collect; a list that ends with an assignment
\* of status ValueError stands for the exception that ended the loop.
RECURSIVE AssignEach(_, _, _, _, _, _)
AssignEach(s, layer_id, unit_ids, segment, times, i) ==
  IF i > Len(unit_ids) THEN {<<>>}
  ELSE UNION {
    IF a.status = ValueError THEN {<<a>>}
    ELSE {<<a>> \o rest :
            rest \in AssignEach(s, layer_id, unit_ids, segment, times, i + 1)}
    : a \in assign_for_layer(s, layer_id, unit_ids[i], segment, None, times[i])}

\* The dict of a loop that ended normally: the last assignment of each unit.
ByUnit(unit_ids, collected) ==
  [u \in {unit_ids[i] : i \in DOMAIN unit_ids} |->
     collected[CHOOSE i \in DOMAIN unit_ids :
                 /\ unit_ids[i] = u
                 /\ \A j \in DOMAIN unit_ids : unit_ids[j] = u => j <= i]]

\* assign_bulk_for_layer: the results it can return; error # "" stands for
\* an exception.
assign_bulk_for_layer(s, layer_id, unit_ids, segment, assignment_logger, times) ==
  {LET assignments == ByUnit(unit_ids, collected) IN
   IF Len(collected) > 0 /\ collected[Len(collected)].status = ValueError
     THEN [error |-> ValueError, assignments |-> <<>>]
   ELSE IF _log_assignments(assignment_logger,
                            {assignments[u] : u \in DOMAIN assignments}) # ""
     THEN [error |-> ValueError, assignments |-> <<>>]
   ELSE [error |-> "", assignments |-> assignments]
   : collected \in AssignEach(s, layer_id, unit_ids, segment, times, 1)}

\* _collect_assignment_stats: the distribution as the number of units per
\* (experiment, variant), and the number of units without a variant.
_collect_assignment_stats(s, layer_id, sample_unit_ids, segment, times) ==
  {LET assigned == {i \in DOMAIN collected : collected[i].status = "assigned"}
       keys == {<<collected[i].experiment_id, collected[i].variant>> : i \in assigned}
   IN
   IF Len(collected) > 0 /\ collected[Len(collected)].status = ValueError
     THEN [error |-> ValueError, distribution |-> <<>>, unassigned_count |-> 0]
   ELSE [error |-> "",
         distribution |->
           [k \in keys |->
              Cardinality({i \in assigned :
                 <<collected[i].experiment_id, collected[i].variant>> = k})],
         unassigned_count |-> Len(collected) - Cardinality(assigned)]
   : collected \in AssignEach(s, layer_id, sample_unit_ids, segment, times, 1)}

\* preview_assignment_distribution: total_users, the distribution and
\* unassigned_count.
preview_assignment_distribution(s, layer_id, sample_unit_ids, segment, times) ==
  {[error |-> r.error, total_users |-> Len(sample_unit_ids),
    assignment_distribution |-> r.distribution,
    unassigned_count |-> r.unassigned_count]
   : r \in _collect_assignment_stats(s, layer_id, sample_unit_ids, segment, times)}

\* preview_assignment_metrics without an srm_tester.
preview_assignment_metrics(s, layer_id, sample_unit_ids, segment, times) ==
  {[error |-> r.error, total_users |-> Len(sample_unit_ids),
    assignment_distribution |-> r.distribution,
    unassigned_count |-> r.unassigned_count]
   : r \in _collect_assignment_stats(s, layer_id, sample_unit_ids, segment, times)}

Units == 0..BUCKET_SPACE

\* ------------------------------------------------------------- inputs
Percentages == {1, 2}
LayerTotals == {2, Scale}
SplitterTypes == {"hash", "random", "stratified", "geo", "segment"}

VariantsAB == <<"A", "B">>
VariantsBA == <<"B", "A">>
Even == [A |-> Scale \div 2, B |-> Scale - Scale \div 2]
WinnerA == [A |-> Scale, B |-> 0]
WinnerB == [A |-> 0, B |-> Scale]
Skewed == [A |-> 1, B |-> Scale - 1]
Short == [A |-> 1, B |-> 1]
SegmentTable == [US |-> Even]

\* models/config_models.py: the validator of ExperimentConfig.
_validate_unique_variants(variants) ==
  /\ variants # <<>>
  /\ \A i, j \in DOMAIN variants : variants[i] = variants[j] => i = j

\* TRUE when _validate_allocation_map returns, FALSE when it raises.
_validate_allocation_map(variants, allocation_map) ==
  LET values == AllocationValues(variants, allocation_map) IN
  /\ ~KeysMismatch(variants, allocation_map)
  /\ ~\E i \in DOMAIN values : float_lt(values[i], 0)
  /\ ~FarFromOne(float_sum(values, 1))

_validate_segmented_allocations(variants, allocations) ==
  allocations # NoAllocations =>
  \A key \in DOMAIN allocations : _validate_allocation_map(variants, allocations[key])

validate_allocations(c) ==
  /\ _validate_unique_variants(c.variants)
  /\ _validate_allocation_map(c.variants, c.traffic_allocation)
  /\ _validate_segmented_allocations(c.variants, c.segment_allocations)
  /\ c.traffic_percentage >= 0 /\ c.traffic_percentage <= Scale
  /\ c.splitter_type \in SplitterTypes
  /\ (c.segment_allocations \notin {NoAllocations, <<>>} => c.splitter_type = "segment")
  /\ (c.start_date # NoDate /\ c.end_date # NoDate => c.start_date <= c.end_date)

\* The plain experiment config of an experiment.
PlainConfig(experiment_id, status, traffic_percentage, reserved_percentage) ==
  [experiment_id |-> experiment_id, layer_id |-> "L1", name |-> "name1",
   variants |-> VariantsAB, traffic_allocation |-> Even,
   segment_allocations |-> NoAllocations, splitter_type |-> "hash",
   status |-> status, start_date |-> NoDate, end_date |-> NoDate,
   traffic_percentage |-> traffic_percentage,
   reserved_percentage |-> reserved_percentage]

PlainConfigs ==
  {PlainConfig(e, st, tp, rp) :
     e \in ExpIds, st \in {"active", "completed"},
     tp \in Percentages, rp \in Percentages}

\* The configs that differ from a plain config in status or layer.
OtherConfigs ==
  UNION {{[c EXCEPT !.layer_id = "L2"], [c EXCEPT !.status = "paused"],
          [c EXCEPT !.splitter_type = "random"]}
           : c \in {x \in PlainConfigs : x.experiment_id = "e1"}}

\* The configs for e1 that differ from a plain config in one stored field.
VariedConfigs ==
  UNION {
    { [c EXCEPT !.name = "name2"],
      [c EXCEPT !.variants = VariantsBA],
      [c EXCEPT !.traffic_allocation = WinnerA],
      [c EXCEPT !.traffic_allocation = WinnerB],
      [c EXCEPT !.traffic_allocation = Skewed],
      [c EXCEPT !.traffic_allocation = Short],
      [c EXCEPT !.splitter_type = "segment"],
      [c EXCEPT !.splitter_type = "segment", !.segment_allocations = SegmentTable],
      [c EXCEPT !.segment_allocations = SegmentTable],
      [c EXCEPT !.segment_allocations = <<>>],
      [c EXCEPT !.status = "draft"] }
    : c \in {x \in PlainConfigs : x.experiment_id = "e1"} }

\* The ExperimentConfig objects that can be constructed from a set of candidates.
Constructed(candidates) == {c \in candidates : validate_allocations(c)}

LayerConfig(layer_id, layer_salt, total_traffic_percentage, exps) ==
  [layer_id |-> layer_id, layer_salt |-> layer_salt, total_slots |-> BUCKET_SPACE,
   total_traffic_percentage |-> total_traffic_percentage,
   experiments |-> exps, slots |-> <<>>]

\* models/config_models.py: the validator of LayerConfig; slots that are None
\* are the empty list.
validate_layer(layer_config) ==
  /\ layer_config.total_slots = BUCKET_SPACE
  /\ layer_config.total_traffic_percentage > 0
  /\ layer_config.total_traffic_percentage <= Scale
  /\ \A i, j \in DOMAIN layer_config.slots :
       layer_config.slots[i].slot_index = layer_config.slots[j].slot_index => i = j
  /\ \A i \in DOMAIN layer_config.slots :
       /\ layer_config.slots[i].slot_index >= 0
       /\ layer_config.slots[i].slot_index < layer_config.total_slots

\* The configs that are paired in one layer config: those that reserve at
\* least their traffic.
PairConfigs ==
  {c \in Constructed(PlainConfigs) : c.reserved_percentage >= c.traffic_percentage}

\* The lists of layer configs handed to apply_layer_configs: one layer config
\* with no, one or two experiments (a pair starts with a config of e1).
Batches ==
  {<<LayerConfig(l, "salt1", t, xs)>> :
     l \in LayerIds, t \in LayerTotals,
     xs \in {<<>>} \cup {<<c>> : c \in Constructed(PlainConfigs \cup OtherConfigs)}}
  \cup
  {<<LayerConfig(l, "salt1", Scale, <<c, d>>)>> :
     l \in LayerIds, c \in {x \in PairConfigs : x.experiment_id = "e1"},
     d \in PairConfigs}
  \cup
  {<<LayerConfig(l, "salt2", Scale, <<>>)>> : l \in LayerIds}
  \cup
  {<<[LayerConfig(l, "salt1", Scale, <<>>) EXCEPT
        !.slots = <<[slot_index |-> 0, experiment_id |-> None]>>]>> : l \in LayerIds}

\* The Experiment objects handed to add_experiment directly.
Experiments ==
  {_build_experiment(c) : c \in PlainConfigs \cup OtherConfigs}

\* ------------------------------------------------------------ the machine
\* The callers that run a mutation step by step, each on a session of its own
\* and each for an experiment of its own.
Workers == {"w1", "w2"}
WorkerExperiment(w) == IF w = "w1" THEN "e1" ELSE "e2"

\* What a session holds between two statements of a mutation: where it is
\* (pc), which mutation it runs (kind), its argument (config), the slot
\* objects its query returned (free_slots) and how the call ended (outcome).
IdleSession ==
  [pc |-> "idle", kind |-> None, config |-> NoExperiment, free_slots |-> {},
   outcome |-> None]

Init ==
  /\ layers = EmptyStore.layers
  /\ layer_slots = EmptyStore.layer_slots
  /\ experiments = EmptyStore.experiments
  /\ last = [op |-> "init", error |-> "", ret |-> "None"]
  /\ sessions = [w \in Workers |-> IdleSession]

\* The call leaves its store committed and its outcome in last.
Commit(op, r) ==
  /\ layers' = r.store.layers
  /\ layer_slots' = r.store.layer_slots
  /\ experiments' = r.store.experiments
  /\ last' = [op |-> op, error |-> r.error, ret |-> r.ret]
  /\ UNCHANGED sessions

CreateLayer ==
  \E l \in LayerIds, n \in {BUCKET_SPACE, BUCKET_SPACE + 1}, t \in LayerTotals :
    /\ TRUE
    /\ Commit("create_layer", create_layer(Store, l, "salt1", n, t))

\* The caller holds a Layer object, so the layer exists.
AddExperiment ==
  \E l \in LayerIds, x \in Experiments :
    /\ layers[l].exists
    /\ Commit("add_experiment", add_experiment(Store, l, x))

RemoveExperiment ==
  \E l \in LayerIds, e \in ExpIds :
    /\ layers[l].exists
    /\ Commit("remove_experiment", remove_experiment(Store, l, e))

ApplyLayerConfigs ==
  \E b \in Batches :
    /\ TRUE
    /\ Commit("apply_layer_configs", apply_layer_configs(Store, b))

Next ==
  \/ CreateLayer
  \/ AddExperiment
  \/ RemoveExperiment
  \/ ApplyLayerConfigs

Spec == Init /\ [][Next]_vars

\* ------------------------------------------- the machine of the field changes
\* One experiment, every config of it that differs from the plain one in one
\* field, one layer of full capacity.
FieldConfigs ==
  Constructed({x \in PlainConfigs : x.experiment_id = "e1"} \cup VariedConfigs)

FieldBatch(c) == <<LayerConfig("L1", "salt1", Scale, <<c>>)>>

ApplyFieldConfigs ==
  \E c \in FieldConfigs :
    /\ TRUE
    /\ Commit("apply_layer_configs", apply_layer_configs(Store, FieldBatch(c)))

\* A layer config that lists a config of e2 before the config of e1.
FieldPair(c, d) == <<LayerConfig("L1", "salt1", Scale, <<c, d>>)>>

FirstOfPair == {PlainConfig("e2", "active", 1, 1)}

ApplyFieldPair ==
  \E c \in FirstOfPair, d \in FieldConfigs :
    /\ TRUE
    /\ Commit("apply_layer_configs", apply_layer_configs(Store, FieldPair(c, d)))

NextFields ==
  \/ CreateLayer
  \/ RemoveExperiment
  \/ ApplyFieldConfigs
  \/ ApplyFieldPair

SpecFields == Init /\ [][NextFields]_vars

\* ------------------------------------ the machine of every public operation
\* The batches of one layer config with one experiment config.
SingleBatches == {b \in Batches : Len(b[1].experiments) = 1}

ApplySingleConfig ==
  \E b \in SingleBatches :
    /\ TRUE
    /\ Commit("apply_layer_configs", apply_layer_configs(Store, b))

DeleteLayer ==
  \E l \in LayerIds :
    /\ TRUE
    /\ Commit("delete_layer", delete_layer(Store, l))

BulkFreeExperimentSlots ==
  \E l \in LayerIds, e \in ExpIds :
    /\ TRUE
    /\ Commit("bulk_free_experiment_slots", bulk_free_experiment_slots(Store, l, e))

NextPublic ==
  \/ CreateLayer
  \/ DeleteLayer
  \/ AddExperiment
  \/ RemoveExperiment
  \/ BulkFreeExperimentSlots
  \/ ApplySingleConfig

SpecPublic == Init /\ [][NextPublic]_vars

\* ------------------------------------- the machine of concurrent mutations
\* Two callers mutate the same layer, each on its own session. A statement
\* that queries reads what is committed at that moment; the writes of a call
\* reach the tables with its commit. Nothing in the code holds a lock between
\* the statements of a call.
\* --------------------------------------------------- the assignment path
\* The configs of e1 that matter to an assignment: status, splitter, segment
\* table, allocation and time window; and one config of e2.
AssignConfigs ==
  Constructed(
    UNION {
      { c,
        [c EXCEPT !.status = "paused"],
        [c EXCEPT !.splitter_type = "random"],
        [c EXCEPT !.splitter_type = "geo"],
        [c EXCEPT !.splitter_type = "segment"],
        [c EXCEPT !.splitter_type = "segment", !.segment_allocations = SegmentTable],
        [c EXCEPT !.traffic_allocation = WinnerB],
        [c EXCEPT !.start_date = 1],
        [c EXCEPT !.end_date = 1] }
      : c \in {PlainConfig("e1", st, 1, 2) : st \in {"active", "completed"}} }
    \cup {PlainConfig("e2", "active", 1, 1)})

ApplyAssignConfigs ==
  \E c \in AssignConfigs :
    /\ TRUE
    /\ Commit("apply_layer_configs", apply_layer_configs(Store, FieldBatch(c)))

Segments == {None, "US", "UK"}
UnitLists == {<<>>, <<0, 1>>, <<2, 3, 0>>}

\* The times utc_now() returns to the calls of one loop, in their order.
Clocks(n) == {times \in [1..n -> Times] : \A i, j \in 1..n : i < j => times[i] <= times[j]}

\* A call of the read path ends: what it returned goes to the caller, and no
\* table is written.
\* A read path that clears the active owner of the first slot of each layer.
AnsweredAfterCleaning(op, error, ret) ==
  /\ last' = [op |-> op, error |-> error, ret |-> ret]
  /\ layer_slots' =
       [l \in DOMAIN layer_slots |->
          [i \in DOMAIN layer_slots[l] |->
             IF i = 0 THEN [layer_slots[l][i] EXCEPT !.experiment_id = None]
             ELSE layer_slots[l][i]]]
  /\ UNCHANGED <<layers, experiments, sessions>>

Answered(op, error, ret) ==
  /\ last' = [op |-> op, error |-> error, ret |-> ret]
  /\ UNCHANGED <<layers, layer_slots, experiments, sessions>>

AssignForLayer ==
  \E l \in LayerIds, u \in Units, segment \in Segments,
     assignment_logger \in Loggers, now \in Times :
    /\ layers[l].exists
    /\ \E a \in assign_for_layer(Store, l, u, segment, assignment_logger, now) :
         Answered("assign_for_layer",
                  IF a.status = ValueError THEN ValueError ELSE "", a.status)

AssignBulkForLayer ==
  \E l \in LayerIds, unit_ids \in UnitLists, segment \in Segments,
     assignment_logger \in Loggers :
    /\ layers[l].exists
    /\ \E times \in Clocks(Len(unit_ids)) :
       \E r \in assign_bulk_for_layer(Store, l, unit_ids, segment,
                                      assignment_logger, times) :
         Answered("assign_bulk_for_layer", r.error,
                  ToString(Cardinality(DOMAIN r.assignments)))

PreviewAssignmentDistribution ==
  \E l \in LayerIds, sample_unit_ids \in UnitLists, segment \in Segments :
    /\ layers[l].exists
    /\ \E times \in Clocks(Len(sample_unit_ids)) :
       \E r \in preview_assignment_distribution(Store, l, sample_unit_ids,
                                                segment, times) :
         Answered("preview_assignment_distribution", r.error,
                  ToString(r.unassigned_count))

PreviewAssignmentMetrics ==
  \E l \in LayerIds, sample_unit_ids \in UnitLists, segment \in Segments :
    /\ layers[l].exists
    /\ \E times \in Clocks(Len(sample_unit_ids)) :
       \E r \in preview_assignment_metrics(Store, l, sample_unit_ids,
                                           segment, times) :
         Answered("preview_assignment_metrics", r.error,
                  ToString(r.unassigned_count))

NextAssign ==
  \/ CreateLayer
  \/ RemoveExperiment
  \/ ApplyAssignConfigs
  \/ AssignForLayer
  \/ AssignBulkForLayer
  \/ PreviewAssignmentDistribution
  \/ PreviewAssignmentMetrics

SpecAssign == Init /\ [][NextAssign]_vars

LiveConfigs == Constructed({c \in PlainConfigs : c.status = "active"})

\* The non-completed reservations of the layer, summed.
current_reserved(s, layer_id, but) ==
  SumOver([e \in ExpIds |-> s.experiments[e].reserved_percentage],
          {e \in LayerExperiments(s, layer_id) \ but :
             s.experiments[e].status # "completed"})

Ended(w, kind, config, outcome, error, ret) ==
  /\ sessions' = [sessions EXCEPT ![w] =
                    [pc |-> "done", kind |-> kind, config |-> NoExperiment,
                     free_slots |-> {}, outcome |-> outcome]]
  /\ last' = [op |-> kind, error |-> error, ret |-> ret]

Moved(w, pc, kind, config, free_slots) ==
  /\ sessions' = [sessions EXCEPT ![w] =
                    [pc |-> pc, kind |-> kind, config |-> config,
                     free_slots |-> free_slots, outcome |-> None]]
  /\ UNCHANGED last

\* add_experiment up to the capacity check.
AddChecked(w, l, c) ==
    /\ sessions[w].pc \in {"idle", "done"}
    /\ layers[l].exists
    /\ UNCHANGED <<layers, layer_slots, experiments>>
    /\ IF c.layer_id # l \/ c.reserved_percentage < c.traffic_percentage
         THEN Ended(w, "add_experiment", c, "raised", "ValueError", "None")
       ELSE IF current_reserved(Store, l, {}) + c.reserved_percentage
                 > layers[l].total_traffic_percentage
         THEN Ended(w, "add_experiment", c, "false", "", "False")
       ELSE Moved(w, "checked", "add_experiment", c, {})

AddCheck ==
  \E w \in Workers, l \in LayerIds, c \in LiveConfigs :
    /\ c.experiment_id = WorkerExperiment(w)
    /\ AddChecked(w, l, c)

\* add_experiment: the query for the free slots.
AddSelectBy(w) ==
    LET c == sessions[w].config
        l == c.layer_id
        reserved_slots_needed == math_ceil(c.reserved_percentage, layers[l].total_slots)
        free_slots == FirstK(ReservedSlots(Store, l, None), reserved_slots_needed)
    IN
    /\ sessions[w].pc = "checked" /\ sessions[w].kind = "add_experiment"
    /\ UNCHANGED <<layers, layer_slots, experiments>>
    /\ IF Cardinality(free_slots) < reserved_slots_needed
         THEN Ended(w, "add_experiment", c, "false", "", "False")
         ELSE Moved(w, "selected", "add_experiment", c, free_slots)

\* add_experiment: the writes to the slot objects of the query, the insert of
\* the experiment and the commit. An UPDATE sets the columns that were
\* assigned, in the row of that slot, whatever the row holds by then.
AddCommitBy(w) ==
    LET c == sessions[w].config
        l == c.layer_id
        free_slots == sessions[w].free_slots
        active_slots ==
          FirstK(free_slots, math_ceil(c.traffic_percentage, layers[l].total_slots))
    IN
    /\ sessions[w].pc = "selected" /\ sessions[w].kind = "add_experiment"
    /\ IF experiments[c.experiment_id].exists
         THEN /\ UNCHANGED <<layers, layer_slots, experiments>>
              /\ Ended(w, "add_experiment", c, "raised", "IntegrityError", "None")
         ELSE /\ layer_slots' =
                   [layer_slots EXCEPT ![l] =
                      [i \in DOMAIN @ |->
                         IF i \in free_slots
                           THEN [reserved_experiment_id |-> c.experiment_id,
                                 experiment_id |->
                                   IF i \in active_slots THEN c.experiment_id
                                   ELSE @[i].experiment_id]
                           ELSE @[i]]]
              /\ experiments' =
                   [experiments EXCEPT ![c.experiment_id] =
                      ExperimentRow(_build_experiment(c))]
              /\ UNCHANGED layers
              /\ Ended(w, "add_experiment", c, "success", "", "True")

\* The synchronizer for an existing experiment, up to the capacity check of
\* _validate_reserved_percentage_change.
GrowChecked(w, l, c) ==
    LET existing == experiments[c.experiment_id]
        immutables == _validate_experiment_immutables(existing, c)
        traffic == _validate_traffic_percentage_change(existing, c)
        reserved == _validate_reserved_percentage_change(Store, l, c.experiment_id, c)
    IN
    /\ sessions[w].pc \in {"idle", "done"}
    /\ layers[l].exists
    /\ existing.exists
    /\ UNCHANGED <<layers, layer_slots, experiments>>
    /\ IF existing.status = "completed"
         THEN Ended(w, "apply_layer_configs", c, "raised",
                    "is completed and cannot be modified", "None")
       ELSE IF immutables # ""
         THEN Ended(w, "apply_layer_configs", c, "raised", immutables, "None")
       ELSE IF traffic # ""
         THEN Ended(w, "apply_layer_configs", c, "raised", traffic, "None")
       ELSE IF reserved # ""
         THEN Ended(w, "apply_layer_configs", c, "raised", reserved, "None")
       ELSE Moved(w, "checked", "apply_layer_configs", c, {})

GrowCheck ==
  \E w \in Workers, l \in LayerIds, c \in LiveConfigs :
    /\ c.experiment_id = WorkerExperiment(w)
    /\ GrowChecked(w, l, c)

\* _apply_reservation_slots: the count of the own slots and the query for
\* the free ones.
GrowSelectBy(w) ==
    LET c == sessions[w].config
        l == c.layer_id
        desired_slots == math_ceil(c.reserved_percentage, layers[l].total_slots)
        current_slots == Cardinality(ReservedSlots(Store, l, c.experiment_id))
        additional_slots == desired_slots - current_slots
        free_slots == FirstK(ReservedSlots(Store, l, None), additional_slots)
    IN
    /\ sessions[w].pc = "checked" /\ sessions[w].kind = "apply_layer_configs"
    /\ UNCHANGED <<layers, layer_slots, experiments>>
    /\ IF desired_slots < current_slots
         THEN Ended(w, "apply_layer_configs", c, "raised",
                    "reserved_percentage cannot decrease", "None")
       ELSE IF additional_slots = 0
         THEN Moved(w, "selected", "apply_layer_configs", c, {})
       ELSE IF Cardinality(free_slots) < additional_slots
         THEN Ended(w, "apply_layer_configs", c, "raised",
                    "insufficient free slots for reservation", "None")
       ELSE Moved(w, "selected", "apply_layer_configs", c, free_slots)

\* The writes of _apply_reservation_slots, then _apply_ramp_up_slots,
\* _update_experiment and the commit.
GrowCommitBy(w) ==
    LET c == sessions[w].config
        l == c.layer_id
        free_slots == sessions[w].free_slots
        written ==
          [Store EXCEPT
             !.layer_slots[l] =
                [i \in DOMAIN @ |->
                   IF i \in free_slots
                     THEN [@[i] EXCEPT !.reserved_experiment_id = c.experiment_id]
                     ELSE @[i]]]
        r == _apply_ramp_up_slots(written, l, c.experiment_id, c)
    IN
    /\ sessions[w].pc = "selected" /\ sessions[w].kind = "apply_layer_configs"
    /\ IF r.error # ""
         THEN /\ UNCHANGED <<layers, layer_slots, experiments>>
              /\ Ended(w, "apply_layer_configs", c, "raised", r.error, "None")
         ELSE /\ layer_slots' = r.store.layer_slots
              /\ experiments' =
                   [experiments EXCEPT ![c.experiment_id] = _update_experiment(@, c)]
              /\ UNCHANGED layers
              /\ Ended(w, "apply_layer_configs", c, "success", "", "None")

AddSelect ==
  \E w \in Workers :
    /\ TRUE
    /\ AddSelectBy(w)

AddCommit ==
  \E w \in Workers :
    /\ TRUE
    /\ AddCommitBy(w)

GrowSelect ==
  \E w \in Workers :
    /\ TRUE
    /\ GrowSelectBy(w)

GrowCommit ==
  \E w \in Workers :
    /\ TRUE
    /\ GrowCommitBy(w)

NextConcurrent ==
  \/ CreateLayer
  \/ AddCheck
  \/ AddSelect
  \/ AddCommit
  \/ GrowCheck
  \/ GrowSelect
  \/ GrowCommit

SpecConcurrent == Init /\ [][NextConcurrent]_vars

\* ------------------------------------------------------------ two layers
\* Each caller mutates a layer of its own, for its own experiment or, with
\* one config, for the experiment of the other caller.
WorkerLayer(w) == IF w = "w1" THEN "L1" ELSE "L2"

LayerCalls(w) ==
  {[c EXCEPT !.layer_id = WorkerLayer(w)] :
     c \in {PlainConfig(WorkerExperiment(w), st, 1, r) :
              st \in {"active", "completed"}, r \in Percentages}
          \cup {PlainConfig(e, "active", 1, 1) : e \in ExpIds}}

\* A call that is made of one transaction ends.
Called(w, kind, c, r) ==
  /\ sessions[w].pc \in {"idle", "done"}
  /\ layers' = r.store.layers
  /\ layer_slots' = r.store.layer_slots
  /\ experiments' = r.store.experiments
  /\ Ended(w, kind, c, IF r.error # "" THEN "raised" ELSE "returned", r.error, r.ret)

LayerCreateBy(w) ==
  Called(w, "create_layer", NoExperiment,
         create_layer(Store, WorkerLayer(w), "salt1", BUCKET_SPACE, Scale))

LayerRemoveBy(w) ==
  \E e \in ExpIds :
    /\ layers[WorkerLayer(w)].exists
    /\ Called(w, "remove_experiment", NoExperiment,
              remove_experiment(Store, WorkerLayer(w), e))

\* apply_layer_configs for a config with target status completed.
LayerCompleteBy(w) ==
  \E c \in LayerCalls(w) :
    /\ c.status = "completed"
    /\ Called(w, "apply_layer_configs", c,
              apply_layer_configs(
                Store, <<LayerConfig(WorkerLayer(w), "salt1", Scale, <<c>>)>>))

LayerAddCheckBy(w) ==
  \E c \in LayerCalls(w) :
    /\ c.status = "active"
    /\ AddChecked(w, WorkerLayer(w), c)

LayerGrowCheckBy(w) ==
  \E c \in LayerCalls(w) :
    /\ c.status = "active"
    /\ GrowChecked(w, WorkerLayer(w), c)

\* A step of the caller w.
LayerStep(w) ==
  \/ LayerCreateBy(w)
  \/ LayerRemoveBy(w)
  \/ LayerCompleteBy(w)
  \/ LayerAddCheckBy(w)
  \/ AddSelectBy(w)
  \/ AddCommitBy(w)
  \/ LayerGrowCheckBy(w)
  \/ GrowSelectBy(w)
  \/ GrowCommitBy(w)

LayerCreate ==
  \E w \in Workers :
    /\ TRUE
    /\ LayerCreateBy(w)

LayerRemove ==
  \E w \in Workers :
    /\ TRUE
    /\ LayerRemoveBy(w)

LayerComplete ==
  \E w \in Workers :
    /\ TRUE
    /\ LayerCompleteBy(w)

LayerAddCheck ==
  \E w \in Workers :
    /\ TRUE
    /\ LayerAddCheckBy(w)

LayerGrowCheck ==
  \E w \in Workers :
    /\ TRUE
    /\ LayerGrowCheckBy(w)

NextLayers ==
  \/ LayerCreate
  \/ LayerRemove
  \/ LayerComplete
  \/ LayerAddCheck
  \/ AddSelect
  \/ AddCommit
  \/ LayerGrowCheck
  \/ GrowSelect
  \/ GrowCommit

SpecLayers == Init /\ [][NextLayers]_vars

\* --------------------------------------------- the validation of allocations
\* The lists of variants and the allocation maps that are handed to the
\* validator of ExperimentConfig and to normalize_allocations.
VariantLists == {<<>>, <<"A">>, VariantsAB, VariantsBA}

Floats == (-1..Scale) \cup {NaN}

\* Every map of no, one or two variants, and maps with a key too many.
AllocationMaps ==
  UNION {[keys -> Floats] : keys \in {{}, {"A"}, {"A", "B"}}}
  \cup {[v \in {"A", "B", "C"} |-> IF v = "C" THEN 0 ELSE m[v]] : m \in {Even, WinnerA}}

\* The fields an ExperimentConfig is built from.
ConfigFields(variants, allocation_map) ==
  [PlainConfig("e1", "active", 1, 1) EXCEPT
     !.variants = variants, !.traffic_allocation = allocation_map]

\* A validation ends: the caller keeps the fields it handed over, and no
\* table is written.
Validated(op, fields, error) ==
  /\ sessions' = [sessions EXCEPT !["w1"].config = fields]
  /\ last' = [op |-> op, error |-> error, ret |-> "None"]
  /\ UNCHANGED <<layers, layer_slots, experiments>>

ConstructExperimentConfig ==
  \E variants \in VariantLists, allocation_map \in AllocationMaps :
    /\ TRUE
    /\ Validated("ExperimentConfig", ConfigFields(variants, allocation_map),
                 IF validate_allocations(ConfigFields(variants, allocation_map))
                   THEN "" ELSE "ValidationError")

NormalizeAllocations ==
  \E variants \in VariantLists, allocation_map \in AllocationMaps :
    /\ TRUE
    /\ Validated("normalize_allocations", ConfigFields(variants, allocation_map),
                 NormalizeRaises(variants, allocation_map))

NextAllocations ==
  \/ ConstructExperimentConfig
  \/ NormalizeAllocations

SpecAllocations == Init /\ [][NextAllocations]_vars

\* ------------------------------------ the machine of a read beside mutations
\* assign_for_layer runs on a session of its own beside the mutations of
\* other sessions. Its two queries are two statements: each reads what is
\* committed at that moment, and nothing in the code holds a lock or a
\* snapshot between them.
Reader == "w1"

\* The statuses assign_for_layer can return when both of its reads see s.
StatusesAt(s, layer_id, unit_id, now) ==
  {a.status : a \in assign_for_layer(s, layer_id, unit_id, None, None, now)}

\* What the second read sees: the tables as they are now, under the slot row
\* that the first read returned.
ReadView(s, layer_id, slot_index, slot) ==
  [s EXCEPT !.layer_slots[layer_id][slot_index] = slot]

\* assign_for_layer up to the query of the slot row.
ReadSlot ==
  \E l \in LayerIds, u \in Units, now \in Times :
    /\ sessions[Reader].pc \in {"idle", "done"}
    /\ layers[l].exists
    /\ LET slot_index ==
             _calculate_user_slot(layers[l].layer_salt, layers[l].total_slots, u)
       IN sessions' =
            [sessions EXCEPT ![Reader] =
               [pc |-> "slot_read", kind |-> "assign_for_layer",
                config |-> [layer_id |-> l, unit_id |-> u, now |-> now,
                            slot_index |-> slot_index,
                            slot |-> layer_slots[l][slot_index],
                            before |-> StatusesAt(Store, l, u, now)],
                free_slots |-> {}, outcome |-> None]]
    /\ UNCHANGED <<layers, layer_slots, experiments, last>>

\* assign_for_layer from session.get(Experiment, slot.experiment_id) to its
\* return statement.
ReadExperiment ==
  /\ sessions[Reader].pc = "slot_read"
  /\ LET call == sessions[Reader].config
         view == ReadView(Store, call.layer_id, call.slot_index, call.slot)
     IN \E status \in StatusesAt(view, call.layer_id, call.unit_id, call.now) :
          sessions' =
            [sessions EXCEPT ![Reader] =
               [pc |-> "done", kind |-> "assign_for_layer", config |-> call,
                free_slots |-> {},
                outcome |-> [status |-> status,
                             after |-> StatusesAt(Store, call.layer_id,
                                                  call.unit_id, call.now)]]]
  /\ UNCHANGED <<layers, layer_slots, experiments, last>>

NextReads ==
  \/ CreateLayer
  \/ RemoveExperiment
  \/ ApplyAssignConfigs
  \/ ReadSlot
  \/ ReadExperiment

SpecReads == Init /\ [][NextReads]_vars

\* ------------------------------------------- the machine of the splitters
\* The splitters as functions of the unit's point val = digest / 2**128 in
\* [0, 1). Here an allocation value a stands for a / Fine and the point val
\* for val / Fine; sums that differ from 1 by no more than the tolerance have
\* the totals Fine - 1, Fine and Fine + 1.
Fine == 2 * Scale
_ALLOC_TOLERANCE == 1
Points == 0..(Fine - 1)

\* abs(total - 1.0) <= _ALLOC_TOLERANCE
WithinTolerance(total) ==
  total - Fine <= _ALLOC_TOLERANCE /\ Fine - total <= _ALLOC_TOLERANCE

\* HashBasedSplitter.assign_variant(unit_id, variants, allocations) for the
\* unit whose point is val.
HashBasedSplitter_assign_variant(val, variants, allocations) ==
  IF variants = <<>> \/ Len(variants) # Len(allocations) THEN ValueError
  ELSE IF ~WithinTolerance(SumOver(allocations, DOMAIN allocations)) THEN ValueError
  ELSE FirstBucket(variants, allocations, val, 1, 0)

\* normalize_allocations: the values in the order of the variants.
ValuesInOrder(variants, allocation_map) ==
  [i \in DOMAIN variants |-> allocation_map[variants[i]]]

\* normalize_allocations with the tolerance raises.
NormalizeFails(variants, allocation_map) ==
  LET values == ValuesInOrder(variants, allocation_map) IN
  IF variants = <<>> THEN TRUE
  ELSE IF DOMAIN allocation_map # {variants[i] : i \in DOMAIN variants} THEN TRUE
  ELSE IF \E i \in DOMAIN values : values[i] < 0 THEN TRUE
  ELSE IF SumOver(values, DOMAIN values) <= 0 THEN TRUE
  ELSE ~WithinTolerance(SumOver(values, DOMAIN values))

\* SegmentedSplitter, StratifiedSplitter and GeoBasedSplitter: assign_variant
\* (unit_id, variants, allocations, key) with the table the splitter was
\* built with, for the unit whose point under this key is val. The three
\* bodies differ in the names of the table and of the key only.
KeyedSplitter_assign_variant(table, val, variants, key) ==
  IF variants = <<>> THEN ValueError
  ELSE IF key = None \/ key \notin DOMAIN table THEN ValueError
  ELSE IF NormalizeFails(variants, table[key]) THEN ValueError
  ELSE FirstBucket(variants, ValuesInOrder(variants, table[key]), val, 1, 0)

VariantsABC == <<"A", "B", "C">>
SplitVariantLists == {<<>>, VariantsAB, VariantsABC}
FineValues == {0, 1, Scale - 1, Scale, Fine - 1}
AllocationLists ==
  [1..2 -> FineValues] \cup [1..3 -> {1, Scale - 1, Scale}]

\* The tables of a keyed splitter: for the key US an allocation that sums to
\* 1, one below and one above 1 by the tolerance, and three that
\* normalize_allocations refuses.
KeyedTables ==
  {[US |-> m] :
     m \in {[A |-> 1, B |-> Fine - 1],
            [A |-> Scale - 1, B |-> Scale], [A |-> Scale + 1, B |-> Scale],
            [A |-> 1, B |-> 1], [A |-> -1, B |-> Fine + 1], [A |-> Fine]}}
KeyedVariantLists == {<<>>, VariantsAB, VariantsBA}
KeyedSplitters == {"SegmentedSplitter", "StratifiedSplitter", "GeoBasedSplitter"}

\* A call of a splitter ends: the caller keeps what it handed over, and no
\* table is written.
Split(op, arguments, variant) ==
  /\ sessions' = [sessions EXCEPT !["w1"].config = arguments]
  /\ last' = [op |-> op, error |-> IF variant = ValueError THEN ValueError ELSE "",
              ret |-> IF variant = ValueError THEN None ELSE variant]
  /\ UNCHANGED <<layers, layer_slots, experiments>>

HashAssignVariant ==
  \E val \in Points, variants \in SplitVariantLists, allocations \in AllocationLists :
    /\ TRUE
    /\ Split("HashBasedSplitter",
             [val |-> val, variants |-> variants, allocations |-> allocations],
             HashBasedSplitter_assign_variant(val, variants, allocations))

KeyedAssignVariant ==
  \E splitter \in KeyedSplitters, table \in KeyedTables, val \in Points,
     variants \in KeyedVariantLists, key \in Segments :
    /\ TRUE
    /\ Split(splitter,
             [val |-> val, variants |-> variants, table |-> table, key |-> key],
             KeyedSplitter_assign_variant(table, val, variants, key))

NextSplitters ==
  \/ HashAssignVariant
  \/ KeyedAssignVariant

SpecSplitters == Init /\ [][NextSplitters]_vars

\* ------------------------------------------ the machine of the time window
\* A datetime is a wall clock reading with or without a timezone; the offset
\* of an aware datetime is what its zone is ahead of UTC. None is NoDateTime.
NoDateTime == [none |-> TRUE, wall |-> 0, aware |-> FALSE, offset |-> 0]
DateTime(wall, aware, offset) ==
  [none |-> FALSE, wall |-> wall, aware |-> aware, offset |-> offset]

\* to_utc taking the wall clock reading of every datetime for UTC.
ReplaceTzinfo(dt) ==
  IF dt.none THEN NoDateTime ELSE DateTime(dt.wall, TRUE, 0)

\* utils/datetime_utils.py: to_utc(dt)
to_utc(dt) ==
  IF dt.none THEN NoDateTime
  ELSE IF ~dt.aware THEN DateTime(dt.wall, TRUE, 0)        \* dt.replace(tzinfo=UTC)
  ELSE DateTime(dt.wall - dt.offset, TRUE, 0)              \* dt.astimezone(UTC)

\* a < b for two aware datetimes: their instants are compared.
datetime_lt(a, b) == a.wall - a.offset < b.wall - b.offset

\* Experiment.is_active(now) for a datetime now.
Experiment_is_active(experiment, now) ==
  LET current_time == to_utc(now)
      start_date_utc == to_utc(experiment.start_date)
      end_date_utc == to_utc(experiment.end_date)
  IN
  IF experiment.status # "active" THEN FALSE
  ELSE IF ~experiment.start_date.none /\ ~start_date_utc.none
            /\ datetime_lt(current_time, start_date_utc) THEN FALSE
  ELSE IF ~experiment.end_date.none /\ ~end_date_utc.none
            /\ datetime_lt(end_date_utc, current_time) THEN FALSE
  ELSE TRUE

\* The readings handed over as now: naive, in UTC and in a zone one unit ahead.
DateTimes ==
  {DateTime(wall, FALSE, 0) : wall \in Times}
  \cup {DateTime(wall, TRUE, offset) : wall \in Times, offset \in {0, 1}}

\* The start and end dates of an experiment: none, or the reading 1.
WindowDates == {NoDateTime} \cup {dt \in DateTimes : dt.wall = 1}

IsActive ==
  \E status \in Statuses, start_date \in WindowDates, end_date \in WindowDates,
     now \in DateTimes :
    /\ sessions' =
         [sessions EXCEPT !["w1"].config =
            [status |-> status, start_date |-> start_date, end_date |-> end_date,
             now |-> now]]
    /\ last' =
         [op |-> "is_active", error |-> "",
          ret |-> IF Experiment_is_active(
                       [status |-> status, start_date |-> start_date,
                        end_date |-> end_date], now)
                    THEN "True" ELSE "False"]
    /\ UNCHANGED <<layers, layer_slots, experiments>>

NextActivity == IsActive

SpecActivity == Init /\ [][NextActivity]_vars

\* ------------------------------------------------ the machine of SRMTester
\* A p-value p stands for p / 1000 (NaN is not a number), a statistic x for
\* x / 1000. Expected proportions are weights that test divides by their sum.
PerMille == 1000

\* The upper quantile of the chi-square distribution with df degrees of
\* freedom at the level q / 1000, in thousandths: chi2.isf(q, df).
chi2_isf(q, df) ==
  IF df = 1
    THEN CASE q = 100 -> 2706 [] q = 50 -> 3841 [] q = 10 -> 6635 [] OTHER -> 10828
    ELSE CASE q = 100 -> 4605 [] q = 50 -> 5991 [] q = 10 -> 9210 [] OTHER -> 13816

\* Above this many units a statistic is beyond every quantile used here.
StatisticCap == 20

\* (f_obs - f_exp) ** 2 / f_exp for f_exp = numerator / denominator > 0, in
\* thousandths, rounded down and capped.
Term(f_obs, numerator, denominator) ==
  LET diff == f_obs * denominator - numerator
      square == diff * diff
      divisor == denominator * numerator
  IN IF square \div divisor >= StatisticCap THEN StatisticCap * PerMille
     ELSE (square * PerMille) \div divisor

\* The p-value of the statistic x with df degrees of freedom: 1 for x = 0,
\* and otherwise a value inside the interval between the levels 0.001, 0.01,
\* 0.05 and 0.1 that chi2.sf(x, df) falls into.
chi2_sf(x, df) ==
  IF x = 0 THEN PerMille
  ELSE IF x > chi2_isf(1, df) THEN 0
  ELSE IF x > chi2_isf(10, df) THEN 5
  ELSE IF x > chi2_isf(50, df) THEN 30
  ELSE IF x > chi2_isf(100, df) THEN 75
  ELSE 500

\* expected_counts without the factor total_sample_size.
ExpectedProportions(weights, total_sample_size) == weights

\* expected_counts = expected_proportions * total_sample_size, as the
\* numerators over the sum of the weights.
ExpectedCounts(weights, total_sample_size) ==
  [i \in DOMAIN weights |-> weights[i] * total_sample_size]

\* scipy.stats.chisquare(f_obs, f_exp) for f_exp[i] = numerators[i] /
\* denominator: the p-value. A term 0 / 0 makes the statistic NaN, a term
\* x / 0 with x > 0 makes it infinite.
chisquare(f_obs, numerators, denominator) ==
  IF denominator = 0 THEN NaN
  ELSE IF \E i \in DOMAIN f_obs : numerators[i] = 0 /\ f_obs[i] = 0 THEN NaN
  ELSE IF \E i \in DOMAIN f_obs : numerators[i] = 0 THEN 0
  ELSE chi2_sf(SumOver([i \in DOMAIN f_obs |->
                          Term(f_obs[i], numerators[i], denominator)],
                       DOMAIN f_obs),
               Len(f_obs) - 1)

\* _classify_severity with the thresholds excluded.
ClassifyBelowThreshold(p_value) ==
  IF float_lt(p_value, 1) THEN "***"
  ELSE IF float_lt(p_value, 10) THEN "**"
  ELSE IF float_lt(p_value, 50) THEN "*"
  ELSE IF float_lt(p_value, 100) THEN "."
  ELSE ""

\* SRMTester._classify_severity(p_value)
_classify_severity(p_value) ==
  IF float_le(p_value, 1) THEN "***"
  ELSE IF float_le(p_value, 10) THEN "**"
  ELSE IF float_le(p_value, 50) THEN "*"
  ELSE IF float_le(p_value, 100) THEN "."
  ELSE ""

NoResult ==
  [p_value |-> NaN, degrees_of_freedom |-> 0, severity |-> "", reject_null |-> FALSE,
   total_sample_size |-> 0]

\* The data of one experiment: the values of a dict under "observed" and
\* under "expected", each of which can be missing.
Data(has_observed, observed, has_expected, expected) ==
  [has_observed |-> has_observed, observed |-> observed,
   has_expected |-> has_expected, expected |-> expected]

\* SRMTester(alpha).test(observed_counts, expected_proportions): error is ""
\* when it returns result.
SRMTester_test(alpha, data) ==
  LET observed_counts == data.observed
      weights == IF data.has_expected THEN data.expected
                 ELSE [i \in DOMAIN observed_counts |-> 1]
      total_sample_size == SumOver(observed_counts, DOMAIN observed_counts)
      p_value == chisquare(observed_counts,
                           ExpectedCounts(weights, total_sample_size),
                           SumOver(weights, DOMAIN weights))
  IN
  IF Len(observed_counts) < 2
    THEN [error |-> "Need at least 2 groups for SRM test", result |-> NoResult]
  ELSE IF \E i \in DOMAIN observed_counts : observed_counts[i] < 0
    THEN [error |-> "Observed counts must be non-negative", result |-> NoResult]
  ELSE IF Len(weights) # Len(observed_counts)
    THEN [error |-> "Expected proportions must match number of groups",
          result |-> NoResult]
  ELSE [error |-> "",
        result |-> [p_value |-> p_value,
                    degrees_of_freedom |-> Len(observed_counts) - 1,
                    severity |-> _classify_severity(p_value),
                    reject_null |-> float_lt(p_value, alpha),
                    total_sample_size |-> total_sample_size]]

\* The body of the try statement of batch_test for one entry: data["observed"]
\* raises KeyError when the key is missing.
TestEntry(alpha, data) ==
  IF ~data.has_observed THEN [error |-> "KeyError", result |-> NoResult]
  ELSE SRMTester_test(alpha, data)

\* batch_test without the try statement: the first entry that raises ends
\* the call.
BatchTestWithoutTry(alpha, experiments_data) ==
  IF \E exp_id \in DOMAIN experiments_data :
       TestEntry(alpha, experiments_data[exp_id]).error # ""
    THEN [error |-> "raised", results |-> <<>>]
    ELSE [error |-> "",
          results |-> [exp_id \in DOMAIN experiments_data |->
                         TestEntry(alpha, experiments_data[exp_id]).result]]

\* SRMTester(alpha).batch_test(experiments_data): the loop keeps the result
\* of every entry whose test returns and goes on after one that raises.
batch_test(alpha, experiments_data) ==
  [error |-> "",
   results |->
     [exp_id \in {x \in DOMAIN experiments_data :
                    TestEntry(alpha, experiments_data[x]).error = ""} |->
        TestEntry(alpha, experiments_data[exp_id]).result]]

Alphas == {10, 50}
PValues == {0, 1, 2, 5, 10, 11, 30, 50, 51, 75, 100, 101, 500, PerMille, NaN}

\* Observed counts with and without expected proportions: the two scenarios,
\* small samples of every level of significance, degenerate samples and
\* entries that test refuses.
SRMData ==
  { Data(TRUE, <<4950, 5050>>, TRUE, <<1, 1>>),
    Data(TRUE, <<1200, 800>>, TRUE, <<1, 1>>),
    Data(TRUE, <<7, 2>>, FALSE, <<>>),
    Data(TRUE, <<8, 1>>, FALSE, <<>>),
    Data(TRUE, <<10, 0>>, FALSE, <<>>),
    Data(TRUE, <<3, 9>>, TRUE, <<1, 3>>),
    Data(TRUE, <<9, 3>>, TRUE, <<1, 3>>),
    Data(TRUE, <<5, 5, 5>>, TRUE, <<1, 1, 1>>),
    Data(TRUE, <<12, 1, 1>>, FALSE, <<>>),
    Data(TRUE, <<0, 0>>, FALSE, <<>>),
    Data(TRUE, <<4, 4>>, TRUE, <<0, 0>>),
    Data(TRUE, <<4, 4>>, TRUE, <<1, 0>>),
    Data(TRUE, <<100>>, FALSE, <<>>),
    Data(TRUE, <<>>, FALSE, <<>>),
    Data(TRUE, <<10, -5>>, FALSE, <<>>),
    Data(TRUE, <<10, 10>>, TRUE, <<1, 1, 1>>),
    Data(FALSE, <<>>, TRUE, <<1, 1>>) }

\* A call of the tester ends: the caller keeps what it handed over and what
\* it got back, and no table is written.
Tested(op, arguments, error, outcome) ==
  /\ sessions' = [sessions EXCEPT !["w1"].config = arguments,
                                  !["w1"].outcome = outcome]
  /\ last' = [op |-> op, error |-> error, ret |-> "None"]
  /\ UNCHANGED <<layers, layer_slots, experiments>>

ClassifySeverity ==
  \E p_value \in PValues :
    /\ TRUE
    /\ Tested("_classify_severity", [p_value |-> p_value], "",
              [severity |-> _classify_severity(p_value)])

SRMTest ==
  \E alpha \in Alphas, data \in {d \in SRMData : d.has_observed} :
    /\ TRUE
    /\ Tested("test", [alpha |-> alpha, data |-> data],
              SRMTester_test(alpha, data).error, SRMTester_test(alpha, data).result)

SRMBatchTest ==
  \E alpha \in Alphas, ids \in SUBSET ExpIds :
    \E experiments_data \in [ids -> SRMData] :
      /\ TRUE
      /\ Tested("batch_test", [alpha |-> alpha, experiments_data |-> experiments_data],
                batch_test(alpha, experiments_data).error,
                batch_test(alpha, experiments_data).results)

NextSRM ==
  \/ ClassifySeverity
  \/ SRMTest
  \/ SRMBatchTest

SpecSRM == Init /\ [][NextSRM]_vars

\* ================================================================ claims
\* The experiment ids a list of layer configs has an entry for with the
\* target status completed.
CompletedTargets(layer_configs) ==
  {e \in ExpIds :
     \E i \in DOMAIN layer_configs :
       \E j \in DOMAIN layer_configs[i].experiments :
         /\ layer_configs[i].experiments[j].experiment_id = e
         /\ layer_configs[i].experiments[j].status = "completed"}

\* Every slot reserved for e in s is reserved for e in t, and every slot
\* active for e in s is active for e in t.
SlotsKept(s, t, e) ==
  \A l \in LayerIds :
    /\ ReservedSlots(s, l, e) \subseteq ReservedSlots(t, l, e)
    /\ ActiveSlots(s, l, e) \subseteq ActiveSlots(t, l, e)

\* Every unit that assign_for_layer can return `assigned` to (e, variant) for
\* in s gets exactly that result in t.
AssignmentsKept(s, t, e) ==
  \A l \in LayerIds : \A u \in Units : \A a \in assign_for_layer(s, l, u, None, None, 0) :
    (a.status = "assigned" /\ a.experiment_id = e) =>
      assign_for_layer(t, l, u, None, None, 0) = {a}

\* C1 as claimed: after a successful apply_layer_configs whose target status
\* for e is not completed, every slot that was reserved or active for e still
\* is, and every unit that was assigned to (e, variant) is assigned to the same
\* (e, variant).
C1_RampStabilityAsClaimed ==
  \A b \in Batches :
    LET r == apply_layer_configs(Store, b) IN
    r.error = "" =>
      \A e \in ExpIds \ CompletedTargets(b) :
        experiments[e].exists =>
          SlotsKept(Store, r.store, e) /\ AssignmentsKept(Store, r.store, e)

\* C1 amended: the slots are kept for every experiment whose target is not
\* completed; the units keep their (e, variant) when e is still active after
\* the call and its splitter is not the random one.
C1_RampStability ==
  \A b \in Batches :
    LET r == apply_layer_configs(Store, b) IN
    r.error = "" =>
      \A e \in ExpIds \ CompletedTargets(b) :
        experiments[e].exists =>
          /\ SlotsKept(Store, r.store, e)
          /\ (is_active(r.store.experiments[e], 0)
                /\ experiments[e].splitter_type # "random")
               => AssignmentsKept(Store, r.store, e)

\* A ramp-up has been applied to e1, which holds slot 0 and, past the slot of
\* e2, slot 2, and a unit of slot 0 is assigned to a variant of e1.
C1_Witness ==
  /\ last.op = "apply_layer_configs" /\ last.error = ""
  /\ ActiveSlots(Store, "L1", "e1") = {0, 2}
  /\ ReservedSlots(Store, "L1", "e2") = {1}
  /\ experiments["e1"].splitter_type = "hash"
  /\ \E u \in Units : \E a \in assign_for_layer(Store, "L1", u, None, None, 0) :
       a.status = "assigned" /\ a.experiment_id = "e1" /\ a.slot_index = 0

\* C2 as claimed: an apply_layer_configs call that raises leaves the three
\* tables as they were before the call.
C2_BatchAtomicity ==
  [][(last'.op = "apply_layer_configs" /\ last'.error # "")
       => UNCHANGED <<layers, layer_slots, experiments>>]_vars

\* C3 as claimed: the reserved percentages of a layer's experiments that are
\* not completed sum to at most the layer's total_traffic_percentage, and each
\* of them reserves at least its traffic_percentage.
C3_CapacityInvariant ==
  \A l \in LayerIds :
    layers[l].exists =>
      LET live == {e \in LayerExperiments(Store, l) :
                     experiments[e].status # "completed"} IN
      /\ SumOver([e \in ExpIds |-> experiments[e].reserved_percentage], live)
           <= layers[l].total_traffic_percentage
      /\ \A e \in live :
           experiments[e].reserved_percentage >= experiments[e].traffic_percentage

\* C4: a slot that is active for an experiment is reserved for that experiment.
C4_ActiveWithinReserved ==
  \A l \in LayerIds : \A i \in DOMAIN layer_slots[l] :
    layer_slots[l][i].experiment_id # None =>
      layer_slots[l][i].reserved_experiment_id = layer_slots[l][i].experiment_id

\* After a successful apply_layer_configs an experiment has one active slot
\* among its two reserved ones, above slot 0, which another experiment gave
\* back.
C4_Witness ==
  /\ last.op = "apply_layer_configs" /\ last.error = ""
  /\ \E e \in ExpIds :
       /\ Cardinality(ActiveSlots(Store, "L1", e)) = 1
       /\ Cardinality(ReservedSlots(Store, "L1", e)) = 2
       /\ 0 \in ReservedSlots(Store, "L1", None)

\* C5 as claimed: under every interleaving of the steps of two mutations of
\* one layer, a mutation that has ended with success has exactly
\* ceil(reserved_percentage * total_slots) slots reserved for its experiment,
\* and the layer's reservations are within its total_traffic_percentage.
C5_SameLayerMutationsSerialized ==
  \A w \in Workers :
    (sessions[w].pc = "done" /\ sessions[w].outcome = "success") =>
      LET e == WorkerExperiment(w)
          l == experiments[e].layer_id
      IN
      /\ Cardinality(ReservedSlots(Store, l, e))
           = math_ceil(experiments[e].reserved_percentage, layers[l].total_slots)
      /\ current_reserved(Store, l, {}) <= layers[l].total_traffic_percentage

\* The config asks for less traffic or less reservation than is stored.
Lowered(existing, c) ==
  \/ c.traffic_percentage < existing.traffic_percentage
  \/ c.reserved_percentage < existing.reserved_percentage

OneVariantTakesAll(allocation) ==
  \E v \in DOMAIN allocation :
    /\ allocation[v] = Scale
    /\ \A w \in DOMAIN allocation \ {v} : allocation[w] = 0

\* The store after the winner allocation of c was accepted for completion.
CollapsedTo(s, c) ==
  /\ s.experiments[c.experiment_id].traffic_allocation = c.traffic_allocation
  /\ s.experiments[c.experiment_id].status = "completed"
  /\ \A l \in LayerIds :
       /\ ReservedSlots(s, l, c.experiment_id) = {}
       /\ ActiveSlots(s, l, c.experiment_id) = {}

C8_CompletedIsFrozen ==
  [][\A e \in ExpIds :
       (experiments[e].exists /\ experiments[e].status = "completed"
          /\ last'.op = "apply_layer_configs")
         => experiments'[e] = experiments[e]]_vars

\* C9: remove_experiment returns true for an experiment of the layer and then
\* no slot of the layer is reserved or active for it and it is completed; it
\* returns false for any other id and changes nothing; the synchronizer's
\* completion leaves the same.
C9_CompletionFreesEverything ==
  /\ \A l \in LayerIds : \A e \in ExpIds :
       LET r == remove_experiment(Store, l, e) IN
       layers[l].exists =>
         IF experiments[e].exists /\ experiments[e].layer_id = l
           THEN /\ r.ret = "True"
                /\ ReservedSlots(r.store, l, e) = {}
                /\ ActiveSlots(r.store, l, e) = {}
                /\ r.store.experiments[e].status = "completed"
           ELSE r.ret = "False" /\ r.store = Store
  /\ \A b \in SingleBatches :
       LET c == b[1].experiments[1]
           r == apply_layer_configs(Store, b)
       IN
       (c.status = "completed" /\ experiments[c.experiment_id].exists
          /\ r.error = "") =>
         /\ ReservedSlots(r.store, c.layer_id, c.experiment_id) = {}
         /\ ActiveSlots(r.store, c.layer_id, c.experiment_id) = {}
         /\ r.store.experiments[c.experiment_id].status = "completed"

\* remove_experiment has just returned true for an experiment that held a
\* slot, next to an experiment that keeps its slots.
C9_Witness ==
  /\ last.op = "remove_experiment" /\ last.ret = "True"
  /\ experiments["e1"].status = "completed"
  /\ ReservedSlots(Store, "L1", "e1") = {}
  /\ ReservedSlots(Store, "L1", "e2") = {1, 2}
  /\ ActiveSlots(Store, "L1", "e2") = {1}

\* C10 as claimed: a slot of a layer that goes on existing loses its reserved
\* owner only in remove_experiment, called directly or by the synchronizer,
\* and that owner is completed afterwards.
C10_OnlyRemoveFreesSlots ==
  [][\A l \in LayerIds : \A i \in DOMAIN layer_slots[l] :
       LET owner == layer_slots[l][i].reserved_experiment_id IN
       (/\ layers'[l].exists
        /\ i \in DOMAIN layer_slots'[l]
        /\ owner # None
        /\ layer_slots'[l][i].reserved_experiment_id = None)
         => /\ last'.op \in {"remove_experiment", "apply_layer_configs"}
            /\ experiments'[owner].status = "completed"]_vars

\* (a) the reservations of the layer plus the new one exceed its total.
CapacityExceeded(l, x) ==
  current_reserved(Store, l, {}) + x.reserved_percentage
    > layers[l].total_traffic_percentage

\* (b) fewer unreserved slots than the new reservation needs.
TooFewFreeSlots(l, x) ==
  Cardinality(ReservedSlots(Store, l, None))
    < math_ceil(x.reserved_percentage, layers[l].total_slots)

C12_SlotSelection ==
  \A l \in LayerIds : \A x \in Experiments :
    LET r == add_experiment(Store, l, x)
        e == x.experiment_id
        free == ReservedSlots(Store, l, None)
        new == ReservedSlots(r.store, l, e) \ ReservedSlots(Store, l, e)
        active == ActiveSlots(r.store, l, e)
    IN
    (layers[l].exists /\ r.ret = "True") =>
      /\ new \subseteq free
      /\ Cardinality(new) = math_ceil(x.reserved_percentage, layers[l].total_slots)
      /\ \A i \in new : \A j \in free \ new : i < j
      /\ active \subseteq new
      /\ Cardinality(active) = math_ceil(x.traffic_percentage, layers[l].total_slots)
      /\ \A i \in active : \A j \in new \ active : i < j
      /\ \A i \in DOMAIN layer_slots[l] \ new :
           r.store.layer_slots[l][i] = layer_slots[l][i]

\* add_experiment has just returned true for e2, which took the two lowest
\* free slots above the slot of e1 and activated the lower one.
C12_Witness ==
  /\ last.op = "add_experiment" /\ last.ret = "True"
  /\ ReservedSlots(Store, "L1", "e1") = {0}
  /\ ReservedSlots(Store, "L1", "e2") = {1, 2}
  /\ ActiveSlots(Store, "L1", "e2") = {1}

\* C14: when a config names an experiment that does not exist and whose
\* target status is not completed, apply_layer_configs returns normally only
\* with the experiment created and ceil(reserved_percentage * N) slots
\* reserved, ceil(traffic_percentage * N) of them active; otherwise it raises
\* and the experiment stays absent, with no slot changed.
C14_NewExperimentNeverSkipped ==
  \A b \in SingleBatches :
    LET layer_config == b[1]
        c == layer_config.experiments[1]
        e == c.experiment_id
        l == layer_config.layer_id
        r == apply_layer_configs(Store, b)
        N == r.store.layers[l].total_slots
    IN
    (c.status # "completed" /\ ~experiments[e].exists) =>
      IF r.error = ""
        THEN /\ r.store.experiments[e].exists
             /\ Cardinality(ReservedSlots(r.store, l, e))
                  = math_ceil(c.reserved_percentage, N)
             /\ Cardinality(ActiveSlots(r.store, l, e))
                  = math_ceil(c.traffic_percentage, N)
        ELSE /\ ~r.store.experiments[e].exists
             /\ layers[l].exists => r.store.layer_slots = layer_slots

\* apply_layer_configs has just raised because add_experiment refused the new
\* experiment e2 beside e1, and e2 is absent.
C14_Witness ==
  /\ last.op = "apply_layer_configs"
  /\ last.error = "failed to add experiment"
  /\ experiments["e1"].exists /\ experiments["e1"].status # "completed"
  /\ ~experiments["e2"].exists

\* C15 as claimed: a step taken for experiment e never changes the reserved
\* or the active owner of a slot that is reserved for another experiment:
\* a reserved slot changes only in a step of the call made for its owner.
C15_AdditiveAcrossExperiments ==
  [][\A l \in LayerIds : \A i \in DOMAIN layer_slots[l] :
       LET owner == layer_slots[l][i].reserved_experiment_id IN
       (owner # None /\ layer_slots'[l][i] # layer_slots[l][i]) =>
         \E w \in Workers :
           /\ sessions'[w] # sessions[w]
           /\ sessions[w].config.experiment_id = owner]_vars

\* The config differs from the stored experiment in a field that cannot be
\* changed (an allocations table that is None counts as an empty one).
ChangesImmutable(existing, d) ==
  \/ d.layer_id # existing.layer_id
  \/ d.splitter_type # existing.splitter_type
  \/ d.variants # get_variant_list(existing)
  \/ _normalize_allocations_optional(d.segment_allocations)
       # get_segment_allocations(existing)
  \/ d.status # "completed" /\ d.traffic_allocation # get_traffic_dict(existing)

\* The calls of apply_layer_configs that hold a config of e1: alone, or after
\* a config of e2 in the same layer config.
FieldCalls ==
  {FieldBatch(d) : d \in FieldConfigs}
  \cup {FieldPair(c, d) : c \in FirstOfPair, d \in FieldConfigs}

\* C13 as claimed: for an existing experiment that is not completed, a call
\* of apply_layer_configs with a config that changes layer_id, splitter_type,
\* variants, segment_allocations or (without completion) traffic_allocation
\* raises, and the experiment record and all slot owners are what they were
\* before the call.
C13_ImmutableFields ==
  \A b \in FieldCalls :
    LET configs == b[1].experiments
        d == configs[Len(configs)]
        existing == experiments[d.experiment_id]
        r == apply_layer_configs(Store, b)
    IN
    (existing.exists /\ existing.status # "completed"
       /\ ChangesImmutable(existing, d)) =>
      /\ r.error # ""
      /\ r.store.experiments[d.experiment_id] = existing
      /\ r.store.layer_slots = layer_slots

\* The same for the calls that hold the config of e1 alone.
ImmutableFieldsOfSingleCall ==
  \A d \in FieldConfigs :
    LET existing == experiments[d.experiment_id]
        r == apply_layer_configs(Store, FieldBatch(d))
    IN
    (existing.exists /\ existing.status # "completed"
       /\ ChangesImmutable(existing, d)) =>
      /\ r.error # ""
      /\ r.store.experiments[d.experiment_id] = existing
      /\ r.store.layer_slots = layer_slots

\* The slot of the unit in the layer.
SlotOf(l, u) ==
  layer_slots[l][_calculate_user_slot(layers[l].layer_salt, layers[l].total_slots, u)]

\* The experiment has status active and now is within its window.
CurrentlyActive(x, now) ==
  /\ x.exists /\ x.status = "active"
  /\ (x.start_date = NoDate \/ x.start_date <= now)
  /\ (x.end_date = NoDate \/ now <= x.end_date)

\* The experiment has a conditional splitter and the call does not pass a
\* key of its table.
MissingContext(x, segment) ==
  /\ x.splitter_type \in {"segment", "geo", "stratified"}
  /\ \/ x.splitter_type # "segment"
     \/ segment = None
     \/ segment \notin DOMAIN get_segment_allocations(x)

\* C16 as claimed: assign_for_layer returns not_assigned with no experiment
\* and no variant exactly when the unit's slot has no active experiment,
\* experiment_inactive with no variant when the slot's experiment is not
\* currently active, and otherwise assigned with the slot's experiment and one
\* of its variants (a conditional splitter that is not given a key of its
\* table raises instead).
C16_OutcomeOfAssign ==
  \A l \in LayerIds :
    layers[l].exists =>
      \A u \in Units, segment \in Segments, now \in Times :
        \A a \in assign_for_layer(Store, l, u, segment, None, now) :
          LET e == SlotOf(l, u).experiment_id IN
          /\ (a.status = "not_assigned") <=> (e = None)
          /\ a.status = "not_assigned" => a.experiment_id = None /\ a.variant = None
          /\ e # None =>
               IF ~CurrentlyActive(experiments[e], now)
                 THEN a.status = "experiment_inactive" /\ a.variant = None
               ELSE IF MissingContext(experiments[e], segment)
                 THEN a.status = ValueError
               ELSE /\ a.status = "assigned"
                    /\ a.experiment_id = e
                    /\ \E i \in DOMAIN experiments[e].variants :
                         a.variant = experiments[e].variants[i]

ReadPath ==
  {"assign_for_layer", "assign_bulk_for_layer",
   "preview_assignment_distribution", "preview_assignment_metrics"}

C18_LoggerCannotFailAssignment ==
  \A l \in LayerIds :
    layers[l].exists =>
      \A segment \in Segments, assignment_logger \in Loggers :
        /\ \A u \in Units, now \in Times :
             assign_for_layer(Store, l, u, segment, assignment_logger, now)
               = assign_for_layer(Store, l, u, segment, None, now)
        /\ \A unit_ids \in UnitLists : \A times \in Clocks(Len(unit_ids)) :
             assign_bulk_for_layer(Store, l, unit_ids, segment, assignment_logger, times)
               = assign_bulk_for_layer(Store, l, unit_ids, segment, None, times)

OutcomeOfAssignWithoutContext ==
  \A l \in LayerIds :
    layers[l].exists =>
      \A u \in Units, now \in Times :
        \A a \in assign_for_layer(Store, l, u, None, None, now) :
          LET e == SlotOf(l, u).experiment_id IN
          /\ (a.status = "not_assigned") <=> (e = None)
          /\ a.status = "not_assigned" => a.experiment_id = None /\ a.variant = None
          /\ e # None =>
               IF ~CurrentlyActive(experiments[e], now)
                 THEN a.status = "experiment_inactive" /\ a.variant = None
               ELSE IF MissingContext(experiments[e], None)
                 THEN a.status = ValueError
               ELSE /\ a.status = "assigned"
                    /\ a.experiment_id = e
                    /\ \E i \in DOMAIN experiments[e].variants :
                         a.variant = experiments[e].variants[i]

\* The rows of every layer but l are the same after the step as before: the
\* layer's attributes, its slots and the experiments that belong to it.
KeptOutside(l) ==
  \A other \in AllLayerIds \ {l} :
    /\ layers'[other] = layers[other]
    /\ layer_slots'[other] = layer_slots[other]
    /\ \A e \in ExpIds :
         (experiments[e].exists /\ experiments[e].layer_id = other) =>
           experiments'[e] = experiments[e]

\* C20: under every interleaving of the steps of a mutation on one layer
\* with those of a mutation on another, a step of create_layer,
\* add_experiment, remove_experiment or of the application of a config for a
\* layer changes no slot owner, experiment record or attribute of the other
\* layer.
C20_LayersAreIndependent ==
  [][\A w \in Workers : LayerStep(w) => KeptOutside(WorkerLayer(w))]_vars

\* Both layers hold an experiment with slots, the caller on L2 has just been
\* refused an experiment id that is taken, and the other caller is in the
\* middle of a call.
C20_Witness ==
  /\ \E e \in ExpIds : ReservedSlots(Store, "L1", e) # {}
  /\ \E e \in ExpIds : ReservedSlots(Store, "L2", e) # {}
  /\ sessions["w2"].pc = "done"
  /\ last.op = "add_experiment" /\ last.error = "IntegrityError"
  /\ sessions["w1"].pc = "selected"

\* Every layer owns the slots 0 .. total_slots - 1, and a layer that is
\* created, by create_layer or by the synchronizer, starts with every slot
\* unowned.
BucketSpaceOwned ==
  \A l \in LayerIds :
    IF layers[l].exists
      THEN DOMAIN layer_slots[l] = 0..(layers[l].total_slots - 1)
      ELSE \A t \in LayerTotals :
             LET r == create_layer(Store, l, "salt1", BUCKET_SPACE, t)
                 a == apply_layer_configs(Store, <<LayerConfig(l, "salt1", t, <<>>)>>)
             IN
             /\ r.error = "" /\ a.error = "" /\ a.store = r.store
             /\ r.store.layers[l].total_slots = BUCKET_SPACE
             /\ r.store.layer_slots[l] = [i \in 0..(BUCKET_SPACE - 1) |-> EmptySlot]

\* The layer configs for layer l, as they are handed over with or without
\* validation, that name another layer_salt or total_slots than the layer has.
MismatchedLayerConfigs(l) ==
  {lc \in {[LayerConfig(l, layer_salt, t, xs) EXCEPT !.total_slots = n] :
             layer_salt \in {"salt1", "salt2"}, t \in LayerTotals,
             n \in {BUCKET_SPACE, BUCKET_SPACE + 1},
             xs \in {<<>>} \cup {<<c>> : c \in Constructed(PlainConfigs)}} :
     \/ lc.layer_salt # layers[l].layer_salt
     \/ lc.total_slots # layers[l].total_slots}

\* Such a config is refused for an existing layer, with nothing written.
MismatchRefused ==
  \A l \in LayerIds :
    layers[l].exists =>
      \A lc \in MismatchedLayerConfigs(l) :
        LET r == apply_layer_configs(Store, <<lc>>) IN
        r.error # "" /\ r.store = Store

\* No step changes the layer_salt, the total_slots or the slot indices of a
\* layer.
BucketSpaceKept ==
  \A l \in LayerIds :
    layers[l].exists =>
      /\ layers'[l].exists
      /\ layers'[l].layer_salt = layers[l].layer_salt
      /\ layers'[l].total_slots = layers[l].total_slots
      /\ DOMAIN layer_slots'[l] = DOMAIN layer_slots[l]

\* C21: a layer owns exactly the slots 0 .. total_slots - 1, all unowned
\* when it is created; its total_slots and layer_salt never change; and
\* apply_layer_configs with another layer_salt or total_slots for an existing
\* layer raises without changing anything.
C21_BucketSpaceIsFixed ==
  [](BucketSpaceOwned /\ MismatchRefused) /\ [][BucketSpaceKept]_vars

\* A config with another layer_salt has just been refused for a layer whose
\* slots are partly owned.
C21_Witness ==
  /\ last.op = "apply_layer_configs" /\ last.error = "layer_salt mismatch"
  /\ layers["L1"].layer_salt = "salt1"
  /\ ReservedSlots(Store, "L1", "e1") # {}
  /\ ReservedSlots(Store, "L1", None) # {}

\* The sizes a caller asks for, and the fields a LayerConfig is built from.
SlotCounts == 0..(BUCKET_SPACE + 1)

LayerConfigFields ==
  {[LayerConfig(l, "salt1", t, <<>>) EXCEPT !.total_slots = n] :
     l \in LayerIds, t \in 0..Scale, n \in SlotCounts}

IsNumber(x) == x # NaN

\* The keys are exactly the variants, every value is a number >= 0, and the
\* values sum to 1.
AcceptedAsClaimed(variants, allocation_map) ==
  /\ DOMAIN allocation_map = {variants[i] : i \in DOMAIN variants}
  /\ \A v \in DOMAIN allocation_map :
       IsNumber(allocation_map[v]) /\ allocation_map[v] >= 0
  /\ SumOver(allocation_map, DOMAIN allocation_map) = Scale

\* C23 as claimed: the construction of an ExperimentConfig and
\* normalize_allocations accept an allocation map exactly when its keys are
\* the variants, every value is >= 0 and the values sum to 1, and fail
\* otherwise.
C23_AllocationValidation ==
  last.op \in {"ExperimentConfig", "normalize_allocations"} =>
    LET fields == sessions["w1"].config IN
    (last.error = "") <=> AcceptedAsClaimed(fields.variants, fields.traffic_allocation)

\* The same for the maps whose values are all numbers.
AllocationValidationOfNumbers ==
  (/\ last.op \in {"ExperimentConfig", "normalize_allocations"}
   /\ \A v \in DOMAIN sessions["w1"].config.traffic_allocation :
        IsNumber(sessions["w1"].config.traffic_allocation[v])) =>
    LET fields == sessions["w1"].config IN
    (last.error = "") <=> AcceptedAsClaimed(fields.variants, fields.traffic_allocation)

\* ceil(p / Scale * N): the least number of slots k with k / N >= p / Scale.
CeilingOf(p, N) ==
  CHOOSE k \in 0..(p * N) :
    /\ k * Scale >= p * N
    /\ \A j \in 0..(p * N) : j * Scale >= p * N => k <= j

\* C24: each experiment of a layer that is not completed has exactly
\* ceil(reserved_percentage * N) slots reserved for it and exactly
\* ceil(traffic_percentage * N) slots active for it, N being the layer's
\* total_slots and the percentages those of its record.
C24_SlotCountsTrackPercentages ==
  \A l \in LayerIds : \A e \in LayerExperiments(Store, l) :
    experiments[e].status # "completed" =>
      /\ Cardinality(ReservedSlots(Store, l, e))
           = CeilingOf(experiments[e].reserved_percentage, layers[l].total_slots)
      /\ Cardinality(ActiveSlots(Store, l, e))
           = CeilingOf(experiments[e].traffic_percentage, layers[l].total_slots)

\* A successful apply_layer_configs has just raised e1 to two reserved slots
\* with one of them active, beside e2.
C24_Witness ==
  /\ last.op = "apply_layer_configs" /\ last.error = ""
  /\ experiments["e1"].status = "active"
  /\ experiments["e1"].reserved_percentage = 2
  /\ experiments["e1"].traffic_percentage = 1
  /\ Cardinality(ReservedSlots(Store, "L1", "e1")) = 2
  /\ Cardinality(ActiveSlots(Store, "L1", "e1")) = 1
  /\ ReservedSlots(Store, "L1", "e2") # {}

\* C25 as claimed: the slots active for an experiment are the lowest-indexed
\* of the slots reserved for it: no slot that is reserved for it and not
\* active has a lower index than one of its active slots.
C25_ActiveIsPrefixOfReserved ==
  \A l \in LayerIds : \A e \in ExpIds :
    \A i \in ActiveSlots(Store, l, e) :
      \A j \in ReservedSlots(Store, l, e) \ ActiveSlots(Store, l, e) : i < j

\* The experiment ids a list of layer configs has an entry for with a target
\* status other than completed.
LiveTargets(layer_configs) ==
  {e \in ExpIds :
     \E i \in DOMAIN layer_configs :
       \E j \in DOMAIN layer_configs[i].experiments :
         /\ layer_configs[i].experiments[j].experiment_id = e
         /\ layer_configs[i].experiments[j].status # "completed"}

\* A call with a target other than completed for a completed experiment
\* raises.
CompletedRefusesLiveTarget ==
  \A b \in Batches : \A e \in LiveTargets(b) :
    (experiments[e].exists /\ experiments[e].status = "completed") =>
      apply_layer_configs(Store, b).error # ""

\* A step of apply_layer_configs leaves a completed experiment completed and
\* gives it no slot it did not have.
CompletedStays ==
  \A e \in ExpIds :
    (experiments[e].exists /\ experiments[e].status = "completed"
       /\ last'.op = "apply_layer_configs") =>
      /\ experiments'[e].status = "completed"
      /\ \A l \in LayerIds :
           /\ ReservedSlots(Store, l, e)' \subseteq ReservedSlots(Store, l, e)
           /\ ActiveSlots(Store, l, e)' \subseteq ActiveSlots(Store, l, e)

\* C26: once an experiment is completed, no apply_layer_configs call sets its
\* status to draft, active or paused or gives it a reserved or an active
\* slot, and a call with a target other than completed for it raises.
C26_CompletedIsAbsorbing ==
  []CompletedRefusesLiveTarget /\ [][CompletedStays]_vars

\* A call with the target active has just been refused for the completed e1,
\* whose former slot is free, beside e2.
C26_Witness ==
  /\ last.op = "apply_layer_configs"
  /\ last.error = "is completed and cannot be modified"
  /\ experiments["e1"].status = "completed"
  /\ ReservedSlots(Store, "L1", "e1") = {}
  /\ 0 \in ReservedSlots(Store, "L1", None)
  /\ ReservedSlots(Store, "L1", "e2") # {}

\* C27 as claimed: no slot has an experiment whose status is completed as its
\* reserved owner or as its active owner.
C27_CompletedHoldNoCapacity ==
  \A l \in LayerIds : \A i \in DOMAIN layer_slots[l] :
    \A owner \in {layer_slots[l][i].reserved_experiment_id,
                  layer_slots[l][i].experiment_id} \ {None} :
      experiments[owner].status # "completed"

\* The same in the states that are reached without a call of add_experiment
\* for an experiment whose status is completed.
CompletedHoldNoCapacityUnlessAdded ==
  [][(\A l \in LayerIds : \A e \in ExpIds :
        experiments[e].status = "completed" => ReservedSlots(Store, l, e) = {})
     => \/ /\ last'.op = "add_experiment"
           /\ \E e \in ExpIds : ~experiments[e].exists
                                  /\ experiments'[e].status = "completed"
        \/ (\A l \in LayerIds : \A e \in ExpIds :
              experiments'[e].status = "completed" =>
                ReservedSlots(Store, l, e)' = {} /\ ActiveSlots(Store, l, e)' = {})]_vars

\* One config with the target completed for an experiment that does not exist
\* leaves the store as it is and returns.
UnknownCompletionIsSkipped ==
  \A l \in LayerIds : \A c \in Constructed(PlainConfigs \cup OtherConfigs) :
    (c.status = "completed" /\ ~experiments[c.experiment_id].exists) =>
      /\ _apply_experiment_config(Store, l, c).store = Store
      /\ _apply_experiment_config(Store, l, c).error = ""

\* A call that names an experiment that does not exist with the target
\* completed leaves it without a record and without a slot.
UnknownCompletionWritesNothing ==
  \A b \in Batches : \A e \in CompletedTargets(b) \ LiveTargets(b) :
    ~experiments[e].exists =>
      LET after == apply_layer_configs(Store, b).store IN
      /\ ~after.experiments[e].exists
      /\ \A l \in LayerIds :
           /\ ReservedSlots(after, l, e) = {}
           /\ ActiveSlots(after, l, e) = {}

\* C28: when a config names an experiment that does not exist with the target
\* status completed, apply_layer_configs creates no experiment record and
\* changes no slot owner for it.
C28_UnknownCompletionIsNoOp ==
  UnknownCompletionIsSkipped /\ UnknownCompletionWritesNothing

\* A call has returned in a state where e1 has no record beside e2 that holds
\* slots, and the call that completes e1 and keeps e2 leaves this state as it is.
C28_Witness ==
  /\ last.op = "apply_layer_configs"
  /\ last.error = ""
  /\ ~experiments["e1"].exists
  /\ ReservedSlots(Store, "L1", "e1") = {}
  /\ ReservedSlots(Store, "L1", "e2") # {}
  /\ \E b \in Batches :
       /\ Len(b[1].experiments) = 2
       /\ b[1].experiments[1].experiment_id = "e1"
       /\ b[1].experiments[1].status = "completed"
       /\ b[1].experiments[2].experiment_id = "e2"
       /\ apply_layer_configs(Store, b).error = ""
       /\ apply_layer_configs(Store, b).store = Store

\* A list of layer configs names every experiment at most once.
NamesEachOnce(layer_configs) ==
  \A i, k \in DOMAIN layer_configs :
    \A j \in DOMAIN layer_configs[i].experiments :
      \A m \in DOMAIN layer_configs[k].experiments :
        layer_configs[i].experiments[j].experiment_id =
          layer_configs[k].experiments[m].experiment_id => (i = k /\ j = m)

\* The second application of layer_configs after a first one that returned
\* returns and leaves the store as the first one left it.
Idempotent(layer_configs) ==
  LET first == apply_layer_configs(Store, layer_configs)
      second == apply_layer_configs(first.store, layer_configs)
  IN first.error = "" => (second.error = "" /\ second.store = first.store)

\* C29 as claimed: from any reachable state, applying the same list of layer
\* configs a second time immediately after a successful first application
\* succeeds and leaves every slot owner and every experiment field exactly as
\* the first application left them.
C29_ApplyIsIdempotent == \A b \in Batches : Idempotent(b)

\* The same for the lists that name every experiment at most once.
IdempotentWhenNamedOnce ==
  \A b \in Batches : NamesEachOnce(b) => Idempotent(b)

\* The layer config with the experiment configs of layer_config in the other
\* order.
Reversed(layer_config) ==
  [layer_config EXCEPT
     !.experiments =
       [i \in DOMAIN layer_config.experiments |->
          layer_config.experiments[Len(layer_config.experiments) + 1 - i]]]

\* Both orders of the experiment configs of b return or both raise.
SameOutcomeInBothOrders(b) ==
  (apply_layer_configs(Store, b).error = "")
    <=> (apply_layer_configs(Store, <<Reversed(b[1])>>).error = "")

\* C30 as claimed: from the same prior state, two layer configs that list the
\* same experiment configs in different orders either both apply successfully
\* or both raise; the lists are those of the configs of two experiments.
C30_OrderIndependent ==
  \A b \in Batches :
    (Len(b[1].experiments) = 2 /\ NamesEachOnce(b)) => SameOutcomeInBothOrders(b)

\* The same for the lists none of whose configs has the target completed.
OrderIndependentWithoutCompletion ==
  \A b \in Batches :
    (Len(b[1].experiments) = 2 /\ NamesEachOnce(b) /\ CompletedTargets(b) = {})
      => SameOutcomeInBothOrders(b)

\* A call of assign_for_layer has returned that read the slot row while an
\* active experiment owned the unit's slot and read the experiment after the
\* removal of that experiment was committed.
ReadAcrossRemoval ==
  /\ sessions[Reader].pc = "done"
  /\ sessions[Reader].kind = "assign_for_layer"
  /\ sessions[Reader].config.before = {"assigned"}
  /\ sessions[Reader].outcome.after = {"not_assigned"}

\* C31 as claimed: an assign_for_layer call that runs beside the removal of
\* the active experiment that owns the unit's slot returns the result it
\* would return before the removal (assigned) or the one it would return
\* after it (not_assigned), never a third outcome.
C31_ReadsAreConsistent ==
  ReadAcrossRemoval =>
    sessions[Reader].outcome.status \in {"assigned", "not_assigned"}

\* What the call returns across a removal: the result after the removal, or
\* experiment_inactive when the slot row was read before it and the experiment
\* after it.
ReadsAcrossRemovalReturn ==
  ReadAcrossRemoval =>
    sessions[Reader].outcome.status \in {"not_assigned", "experiment_inactive"}

\* C32 as claimed: when the unit's slot is active for a currently active
\* experiment whose splitter_type is hash or random, assign_for_layer returns
\* status assigned whether a context argument is supplied or not.
C32_UnusedContextDoesNotBreak ==
  \A l \in LayerIds :
    layers[l].exists =>
      \A u \in Units, segment \in Segments, now \in Times :
        LET e == SlotOf(l, u).experiment_id IN
        (/\ e # None
         /\ CurrentlyActive(experiments[e], now)
         /\ experiments[e].splitter_type \in {"hash", "random"}) =>
          \A a \in assign_for_layer(Store, l, u, segment, None, now) :
            a.status = "assigned"

\* The same for the calls that supply no context argument.
HashAndRandomAssignWithoutContext ==
  \A l \in LayerIds :
    layers[l].exists =>
      \A u \in Units, now \in Times :
        LET e == SlotOf(l, u).experiment_id IN
        (/\ e # None
         /\ CurrentlyActive(experiments[e], now)
         /\ experiments[e].splitter_type \in {"hash", "random"}) =>
          \A a \in assign_for_layer(Store, l, u, None, None, now) :
            a.status = "assigned"

\* a1 + ... + ai
Boundary(allocations, i) == SumOver(allocations, 1..i)

\* The first variant whose cumulative boundary exceeds the point p, the last
\* variant when no boundary does.
FirstExceeding(variants, allocations, p) ==
  IF \E i \in DOMAIN variants : p < Boundary(allocations, i)
    THEN variants[CHOOSE i \in DOMAIN variants :
                    /\ p < Boundary(allocations, i)
                    /\ \A j \in 1..(i - 1) : ~(p < Boundary(allocations, j))]
    ELSE variants[Len(variants)]

\* The call handed variants and as many allocations that sum to 1 within the
\* tolerance to the hash splitter.
HashCase ==
  /\ last.op = "HashBasedSplitter"
  /\ sessions["w1"].config.variants # <<>>
  /\ Len(sessions["w1"].config.variants) = Len(sessions["w1"].config.allocations)
  /\ WithinTolerance(SumOver(sessions["w1"].config.allocations,
                             DOMAIN sessions["w1"].config.allocations))

\* The call handed a key of its table to a keyed splitter, and the table has
\* for it an allocation of the variants that has no negative value and sums
\* to 1 within the tolerance.
KeyedCase ==
  /\ last.op \in KeyedSplitters
  /\ sessions["w1"].config.variants # <<>>
  /\ sessions["w1"].config.key \in DOMAIN sessions["w1"].config.table
  /\ LET m == sessions["w1"].config.table[sessions["w1"].config.key]
         variants == sessions["w1"].config.variants
     IN /\ DOMAIN m = {variants[i] : i \in DOMAIN variants}
        /\ \A v \in DOMAIN m : m[v] >= 0
        /\ WithinTolerance(SumOver(m, DOMAIN m))

\* C33: given variants v1..vn with allocations a1..an that sum to 1 within
\* the tolerance and the unit's point p in [0,1), the hash splitter returns
\* the first vi with p < a1+...+ai, and vn when no cumulative boundary exceeds
\* p; the segment, geo and stratified splitters apply the same rule to the
\* allocation looked up for the given key.
C33_HashBasedVariantSelection ==
  /\ HashCase =>
       /\ last.error = ""
       /\ last.ret = FirstExceeding(sessions["w1"].config.variants,
                                    sessions["w1"].config.allocations,
                                    sessions["w1"].config.val)
  /\ KeyedCase =>
       LET c == sessions["w1"].config IN
       /\ last.error = ""
       /\ last.ret = FirstExceeding(c.variants,
                                    ValuesInOrder(c.variants, c.table[c.key]),
                                    c.val)

\* The hash splitter has returned the second of three variants: the point is
\* at or above the first boundary and below the second.
C33_Witness ==
  /\ HashCase
  /\ sessions["w1"].config.variants = VariantsABC
  /\ sessions["w1"].config.allocations[1] > 0
  /\ sessions["w1"].config.val >= sessions["w1"].config.allocations[1]
  /\ last.ret = "B"

\* A keyed splitter has returned the last variant for a point that no
\* boundary exceeds.
FallbackTaken ==
  /\ KeyedCase
  /\ \A i \in DOMAIN sessions["w1"].config.variants :
       sessions["w1"].config.val >=
         Boundary(ValuesInOrder(sessions["w1"].config.variants,
                                sessions["w1"].config.table[sessions["w1"].config.key]),
                  i)
  /\ last.ret = "A"
  /\ sessions["w1"].config.variants = VariantsBA

\* C34 as claimed: get_layer_info reports free_slots + used_slots =
\* total_slots, used_slots equal to the sum of the per-experiment slot counts
\* it reports, and active_experiments equal to the number of the layer's
\* experiments whose status is active.
C34_LayerSummaryIsConsistent ==
  \A l \in LayerIds :
    layers[l].exists =>
      LET info == get_layer_info(Store, l) IN
      /\ info.free_slots + info.used_slots = info.total_slots
      /\ info.used_slots =
           SumOver(info.experiment_slot_counts, DOMAIN info.experiment_slot_counts)
      /\ info.active_experiments =
           Cardinality({e \in ExpIds : /\ experiments[e].exists
                                       /\ experiments[e].layer_id = l
                                       /\ experiments[e].status = "active"})

\* What the summary reports: used_slots is the number of slots with a reserved
\* owner, which is the sum of the per-experiment counts when no experiment of
\* the layer has a slot that is reserved and not active.
LayerSummaryCountsReservations ==
  \A l \in LayerIds :
    layers[l].exists =>
      LET info == get_layer_info(Store, l) IN
      /\ info.free_slots + info.used_slots = info.total_slots
      /\ info.used_slots =
           Cardinality({i \in DOMAIN layer_slots[l] :
                          layer_slots[l][i].reserved_experiment_id # None})
      /\ (\A i \in DOMAIN layer_slots[l] :
            layer_slots[l][i].reserved_experiment_id = layer_slots[l][i].experiment_id)
           => info.used_slots =
                SumOver(info.experiment_slot_counts, DOMAIN info.experiment_slot_counts)
      /\ info.active_experiments =
           Cardinality({e \in ExpIds : /\ experiments[e].exists
                                       /\ experiments[e].layer_id = l
                                       /\ experiments[e].status = "active"})

\* The instant of a datetime in UTC, a naive datetime taken as UTC.
InstantOf(dt) == IF dt.aware THEN dt.wall - dt.offset ELSE dt.wall

\* C35: is_active(now) is true exactly when status is active and (start_date
\* is unset or now >= start_date) and (end_date is unset or now <= end_date),
\* all compared in UTC with naive datetimes taken as UTC; draft, paused and
\* completed experiments are never active whatever the dates.
C35_ActivityWindow ==
  last.op = "is_active" =>
    LET x == sessions["w1"].config IN
    /\ (last.ret = "True") <=>
         /\ x.status = "active"
         /\ (x.start_date.none \/ InstantOf(x.now) >= InstantOf(x.start_date))
         /\ (x.end_date.none \/ InstantOf(x.now) <= InstantOf(x.end_date))
    /\ x.status \in {"draft", "paused", "completed"} => last.ret = "False"

\* An active experiment is found active at a naive reading that is below the
\* reading of its start date, which is in a zone ahead of UTC.
C35_Witness ==
  /\ last.op = "is_active"
  /\ last.ret = "True"
  /\ sessions["w1"].config.status = "active"
  /\ ~sessions["w1"].config.now.aware
  /\ ~sessions["w1"].config.start_date.none
  /\ sessions["w1"].config.start_date.offset = 1
  /\ sessions["w1"].config.now.wall < sessions["w1"].config.start_date.wall
  /\ ~sessions["w1"].config.end_date.none

\* The severity the thresholds give to a p-value.
SeverityByThreshold(p) ==
  CASE p = NaN -> ""
    [] p # NaN /\ p <= 1 -> "***"
    [] p # NaN /\ 1 < p /\ p <= 10 -> "**"
    [] p # NaN /\ 10 < p /\ p <= 50 -> "*"
    [] p # NaN /\ 50 < p /\ p <= 100 -> "."
    [] OTHER -> ""

Significant == {"*", "**", "***"}

TestReturned == last.op = "test" /\ last.error = ""

\* C36: the decision and the severity of the SRM test are functions of the
\* p-value: test sets reject_null exactly when p_value < alpha, and severity
\* to "***" for p <= 0.001, "**" for 0.001 < p <= 0.01, "*" for
\* 0.01 < p <= 0.05, "." for 0.05 < p <= 0.1 and "" otherwise; with
\* alpha = 0.05 every result that rejects has severity "*", "**" or "***".
C36_DecisionAndSeverity ==
  /\ last.op = "_classify_severity" =>
       sessions["w1"].outcome.severity =
         SeverityByThreshold(sessions["w1"].config.p_value)
  /\ TestReturned =>
       LET result == sessions["w1"].outcome
           alpha == sessions["w1"].config.alpha
       IN /\ result.reject_null <=>
               (result.p_value # NaN /\ result.p_value < alpha)
          /\ result.severity = SeverityByThreshold(result.p_value)
          /\ (alpha = 50 /\ result.reject_null) => result.severity \in Significant

\* A test with alpha = 0.05 rejects with a p-value between 0.01 and 0.05.
C36_Witness ==
  /\ TestReturned
  /\ sessions["w1"].config.alpha = 50
  /\ sessions["w1"].outcome.reject_null
  /\ sessions["w1"].outcome.severity = "*"

\* A p-value on a threshold has been classified.
ThresholdClassified ==
  /\ last.op = "_classify_severity"
  /\ sessions["w1"].config.p_value \in {1, 10, 50, 100}

\* The three checks of test on the data of one experiment.
PassesTest(data) ==
  /\ data.has_observed
  /\ Len(data.observed) >= 2
  /\ \A i \in DOMAIN data.observed : data.observed[i] >= 0
  /\ data.has_expected => Len(data.expected) = Len(data.observed)

\* C37: batch_test returns normally for every input map, and its result has
\* an entry for exactly the experiment ids whose data passes test (at least 2
\* groups, no negative count, proportions matching the group count); each
\* entry is the result test gives for that data alone, whatever the other
\* entries are.
C37_BatchIsolation ==
  last.op = "batch_test" =>
    LET experiments_data == sessions["w1"].config.experiments_data
        alpha == sessions["w1"].config.alpha
        results == sessions["w1"].outcome
    IN /\ last.error = ""
       /\ DOMAIN results =
            {exp_id \in DOMAIN experiments_data : PassesTest(experiments_data[exp_id])}
       /\ \A exp_id \in DOMAIN results :
            /\ SRMTester_test(alpha, experiments_data[exp_id]).error = ""
            /\ results[exp_id] = SRMTester_test(alpha, experiments_data[exp_id]).result

\* A batch of one entry that passes and one that does not has returned.
C37_Witness ==
  /\ last.op = "batch_test"
  /\ last.error = ""
  /\ \E good, bad \in DOMAIN sessions["w1"].config.experiments_data :
       /\ PassesTest(sessions["w1"].config.experiments_data[good])
       /\ ~PassesTest(sessions["w1"].config.experiments_data[bad])
       /\ DOMAIN sessions["w1"].outcome = {good}

ScenarioOf(observed) ==
  /\ TestReturned
  /\ sessions["w1"].config.alpha = 50
  /\ sessions["w1"].config.data = Data(TRUE, observed, TRUE, <<1, 1>>)

ScenarioRan(observed) ==
  /\ last.op = "test"
  /\ sessions["w1"].config.alpha = 50
  /\ sessions["w1"].config.data = Data(TRUE, observed, TRUE, <<1, 1>>)

\* C38: with alpha = 0.05 the chi-square test (expected counts = expected
\* proportion x total sample size, degrees of freedom = groups - 1) on the
\* observed counts [4950, 5050] with expected [0.5, 0.5] does not reject, and
\* on [1200, 800] with expected [0.5, 0.5] rejects with severity "*", "**"
\* or "***".
C38_SRMScenario ==
  /\ ScenarioRan(<<4950, 5050>>) =>
       /\ last.error = ""
       /\ sessions["w1"].outcome.total_sample_size = 10000
       /\ sessions["w1"].outcome.degrees_of_freedom = 1
       /\ ~sessions["w1"].outcome.reject_null
  /\ ScenarioRan(<<1200, 800>>) =>
       /\ last.error = ""
       /\ sessions["w1"].outcome.total_sample_size = 2000
       /\ sessions["w1"].outcome.degrees_of_freedom = 1
       /\ sessions["w1"].outcome.reject_null
       /\ sessions["w1"].outcome.severity \in Significant

\* The test on [1200, 800] has rejected.
C38_Witness ==
  /\ ScenarioOf(<<1200, 800>>)
  /\ sessions["w1"].outcome.reject_null

\* The test on [4950, 5050] has returned without rejecting.
BalancedScenarioRan ==
  /\ ScenarioOf(<<4950, 5050>>)
  /\ ~sessions["w1"].outcome.reject_null

====
